---- MODULE Spec2Model ----
(***************************************************************************)
(* gnasty-chat: the broadcast hub (internal/httpapi), the Twitch IRC       *)
(* receiver's retry loop (internal/twitchirc) and the credential hot-swap  *)
(* controller (cmd/harvester), as state machines.                          *)
(*                                                                         *)
(* The module also holds the YouTube polling receiver (ytlive Client.Run). *)
(* Its specifications:                                                     *)
(*   SpecHub    - Server.Broadcast / addClient / removeClient / Shutdown   *)
(*                and the subscriber transport loops (SpecHubFair adds     *)
(*                the fairness of the handlers' goroutines);               *)
(*   SpecIRC    - Client.Run and Client.runOnce of the IRC receiver;       *)
(*   SpecYT     - Client.Run of the polling receiver;                      *)
(*   SpecRecv   - either receiver, run on its own (SpecRecvFair adds the   *)
(*                fairness of its goroutines, timers and requests);        *)
(*   SpecReload - runTwitchWithReload, sendTokenUpdate, applyTokenUpdate   *)
(*                (SpecReloadFair adds the scheduler's fairness);          *)
(*   SpecSup    - the YouTube supervisor of main: resolve, stopPoller,     *)
(*                startPoller and the poller tasks;                        *)
(*   SpecRf     - RefreshManager.Refresh and StartAuto with the receiver's *)
(*                RefreshNow as second caller (SpecRfFair adds the         *)
(*                fairness of StartAuto's goroutine);                      *)
(*   SpecPipe   - the handler closure, BufferedWriter and WithBroadcast;   *)
(*   SpecMsg    - parsePrivmsg, parseTwitchBadges and buildMessage as      *)
(*                functions of the unit and of the wall clock.             *)
(* Each specification holds the variables of the other components at their *)
(* initial values.                                                         *)
(***************************************************************************)

EXTENDS Integers, Sequences, FiniteSets, TLC

VARIABLES
    \* ---- broadcast hub (internal/httpapi/server.go) ----
    clients,      \* Server.clients: the registered subscribers
    closed,       \* Server.closed
    ch,           \* streamClient.ch: the buffered messages of each subscriber
    chOpen,       \* streamClient.ch has not been closed
    filt,         \* streamClient.filters
    tpc,          \* position of each subscriber's transport handler
    bc,           \* the Broadcast call in progress (it holds Server.mu)
    nsent,        \* number of Broadcast calls begun
    hubLog,       \* history of the Broadcast call in progress
    hubErr        \* the runtime panic the hub has raised, if any

hubVars == <<clients, closed, ch, chOpen, filt, tpc, bc, nsent, hubLog, hubErr>>

VARIABLES
    \* ---- Twitch IRC receiver (internal/twitchirc/client.go) ----
    rpc,            \* position of Client.Run
    phase,          \* position of Client.runOnce within a connection attempt
    backoff,        \* Run's local backoff, in seconds
    refreshBackoff, \* Run's local refreshBackoff, in seconds
    ctxDone,        \* the cancellation signal given to Run has fired
    cfgOk,          \* Config.Channel and Config.Nick are both non-blank
    refreshCfg,     \* Config.RefreshNow is configured
    retval,         \* what Run returned
    ircLog,         \* history of the sleeps and refresh calls of Run
    cfgTok,         \* Config.Token (0: blank)
    provTok,        \* what Config.TokenProvider returns (0: no provider, or blank)
    sessTok,        \* runOnce's local token: the credential of this attempt
    conn,           \* the connection of this attempt
    watcher,        \* this attempt's goroutine that closes conn on cancel
    lingering,      \* the watchers of ended attempts that have not exited yet
    arrived,        \* history: chat posts parsePrivmsg built, this attempt
    handled         \* history: the handler's calls, this attempt

ircVars == <<rpc, phase, backoff, refreshBackoff, ctxDone, cfgOk, refreshCfg,
             retval, ircLog, cfgTok, provTok, sessTok, conn, watcher,
             lingering, arrived, handled>>

VARIABLES
    \* ---- credential hot-swap controller (cmd/harvester/main.go) ----
    file,      \* normalized content of the token file
    stateTok,  \* tokenState.token
    cached,    \* FileTokenLoader.cached
    updates,   \* the tokenUpdates channel
    ctl,       \* position of runTwitchWithReload, with the update it applies
    cur,       \* the IRC client task runTwitchWithReload started last
    orphans,   \* client tasks still running that are no longer `cur`
    pusher,    \* position of each task that sends credential updates
    rootDone,  \* the root context is cancelled
    relLog     \* history: pushes begun, reconnects for channel updates, burst

relVars == <<file, stateTok, cached, updates, ctl, cur, orphans, pusher,
             rootDone, relLog>>

VARIABLES
    \* ---- YouTube polling receiver (ytlive Client.Run) ----
    ypc,            \* position of Client.Run
    liveURLOk,      \* Config.LiveURL is a non-blank request URI
    ybackoff,       \* Run's local backoff, in seconds
    apiKey,         \* Run's local apiKey (0: "")
    clientVersion,  \* Run's local clientVersion (0: "")
    continuation,   \* Run's local continuation (0: "")
    yctxDone,       \* the cancellation signal given to Run has fired
    pollDelay,      \* Client.pollDelay, in milliseconds
    polled,         \* history: the messages successful polls returned
    delivered,      \* history: the handler's calls
    ytLog           \* history of the requests and sleeps of Run

ytVars == <<ypc, liveURLOk, ybackoff, apiKey, clientVersion, continuation,
            yctxDone, pollDelay, polled, delivered, ytLog>>

VARIABLES
    \* ---- YouTube supervisor (cmd/harvester main, the resolver goroutine) ----
    supPc,          \* position of the supervising goroutine
    currentCancel,  \* currentCancel != nil
    currentDone,    \* the task whose done channel currentDone is (0: nil)
    currentWatch,   \* currentWatch (0: "")
    pending,        \* startPoller's watchURL while its stopPoller waits (0: none)
    task,           \* the poller tasks: state, watch target, pollCtx cancelled
    supCtxDone,     \* the root context is cancelled
    supLog          \* history: the last resolution, the target known offline

supVars == <<supPc, currentCancel, currentDone, currentWatch, pending, task,
             supCtxDone, supLog>>

VARIABLES
    \* ---- Twitch token refresher (RefreshManager and its two callers) ----
    rf,             \* per caller: position inside Refresh, token and lifetime held
    ret,            \* per caller: what its last Refresh returned
    lastExpires,    \* RefreshManager.lastExpires, ms
    tokenFile,      \* content of the persisted token file
    autoPc,         \* position of StartAuto's goroutine
    timerD,         \* duration StartAuto's timer was last armed with, ms
    abackoff,       \* StartAuto's backoff, ms
    rfCtxDone,      \* the context of the refresher is cancelled
    rfLog           \* history: observer calls of the current iteration

rfVars == <<rf, ret, lastExpires, tokenFile, autoPc, timerD, abackoff,
            rfCtxDone, rfLog>>

VARIABLES
    \* ---- Message pipeline (handler closure, BufferedWriter, WithBroadcast) ----
    pcfg,           \* the assembled writer: buffered, batchSize, flush, api, metrics
    handed,         \* messages the receiver has handed to the handler
    buffer,         \* BufferedWriter.buffer
    ptimer,         \* BufferedWriter.timer != nil
    lastErr,        \* BufferedWriter.lastErr != nil
    stored,         \* messages SQLiteSink.Write has stored
    bcast,          \* messages passed to api.Broadcast
    tries,          \* per message: calls of SQLiteSink.Write
    pipeStopped,    \* the receiver's context is cancelled
    inflight,       \* the batch onTimer took and has not yet written
    pclosed,        \* BufferedWriter.closed
    sinkLog,        \* the messages handed to SQLiteSink.Write, in order
    pipeLog         \* history: failures logged and counted

pipeVars == <<pcfg, handed, buffer, ptimer, lastErr, stored, bcast, tries,
              pipeStopped, pipeLog,
             inflight, pclosed, sinkLog>>

VARIABLES
    \* ---- Message building (parsePrivmsg, parseTwitchBadges, buildMessage) ----
    m1,             \* the unit last given to a receiver's builder, and its result
    m2,             \* the one before
    bg              \* the badge tags last given to parseTwitchBadges, and its result

msgVars == <<m1, m2, bg>>

vars == <<hubVars, ircVars, relVars, ytVars, supVars, rfVars, pipeVars, msgVars>>

\* What the actions of one component leave alone.
exceptHub == <<ircVars, relVars, ytVars, supVars, rfVars, pipeVars, msgVars>>
exceptIrc == <<hubVars, relVars, ytVars, supVars, rfVars, pipeVars, msgVars>>
exceptRel == <<hubVars, ircVars, ytVars, supVars, rfVars, pipeVars, msgVars>>
exceptYt  == <<hubVars, ircVars, relVars, supVars, rfVars, pipeVars, msgVars>>
exceptSup == <<hubVars, ircVars, relVars, ytVars, rfVars, pipeVars, msgVars>>
exceptRf  == <<hubVars, ircVars, relVars, ytVars, supVars, pipeVars, msgVars>>
exceptPipe == <<hubVars, ircVars, relVars, ytVars, supVars, rfVars, msgVars>>
exceptMsg == <<hubVars, ircVars, relVars, ytVars, supVars, rfVars, pipeVars>>

----------------------------------------------------------------------------
(* Bounds of the hub model. *)

\* Number of subscriber connections that may ever be opened.
NumSubs == 2
\* Capacity of a subscriber channel (make(chan core.ChatMessage, 256)),
\* scaled down.
ChanCap == 1
\* Number of Broadcast calls.
MaxBroadcasts == 2
\* Chat posts read in one connection attempt of the IRC receiver.
MaxLines == 2
\* Watcher goroutines of ended attempts not yet scheduled.
MaxLinger == 1
Watchers == 1 .. MaxLinger
\* Distinct key/version pairs and continuations YouTube hands out.
NumKeys == 2
NumConts == 2
\* Messages the polling receiver is handed in one Run.
MaxPolled == 2
\* Instants of the wall clock.
NumTimes == 2
\* Poller tasks the supervisor may ever start, and distinct watch targets.
MaxPollers == 2
NumWatch == 2
\* Messages a receiver hands to the handler, and the largest batch size.
MaxMsgs == 3
MaxBatch == 2
\* Entries of a badges tag and of a badge-info tag.
MaxBadges == 3
MaxInfo == 1

Subs == 1 .. NumSubs

----------------------------------------------------------------------------
(* Messages and filters. A username is a sequence of characters so that    *)
(* strings.ToLower and strings.Contains are computed, not assumed.         *)

Min(a, b) == IF a < b THEN a ELSE b

LowerChar(c) == CASE c = "A" -> "a" [] c = "B" -> "b" [] OTHER -> c

ToLower(s) == [i \in DOMAIN s |-> LowerChar(s[i])]

Contains(s, u) ==
    \E i \in 0 .. (Len(s) - Len(u)) : SubSeq(s, i + 1, i + Len(u)) = u

\* The messages the receivers hand to the hub.
Msgs ==
    { [platform |-> "Twitch",  username |-> <<"A", "b">>, ts |-> 5],
      [platform |-> "YouTube", username |-> <<"B", "a">>, ts |-> 2] }

\* Filters.Since == nil
NoSince == -1

\* The filters a subscriber may register with (FiltersFromRequest): one
\* with a platform and a username, one with the platform wildcard and since.
Filters ==
    { [platforms |-> {"YouTube"}, usernames |-> {<<"b", "a">>}, since |-> NoSince],
      [platforms |-> {""},        usernames |-> {},             since |-> 3] }

Matches(f, msg) ==
    /\ (f.platforms # {}) =>
           \E p \in f.platforms : p = "" \/ msg.platform = p
    /\ (f.usernames # {}) =>
           \E u \in f.usernames : Contains(ToLower(msg.username), u)
    /\ (f.since # NoSince) => ~(msg.ts < f.since)

----------------------------------------------------------------------------
(* Hub state. *)

NoBroadcast == [active |-> FALSE, msg |-> CHOOSE m \in Msgs : TRUE, todo |-> {}]

EmptyLog == [room |-> {}, got |-> {}, full |-> {}, skipped |-> {}]

\* The filter slot of a subscriber that does not exist (not yet built, or
\* garbage after its handler returned).
NoFilter == CHOOSE f \in Filters : f.since # NoSince

HubInit ==
    /\ clients = {}
    /\ closed = FALSE
    /\ ch = [c \in Subs |-> <<>>]
    /\ chOpen = [c \in Subs |-> FALSE]
    /\ filt = [c \in Subs |-> NoFilter]
    /\ tpc = [c \in Subs |-> "idle"]
    /\ bc = NoBroadcast
    /\ nsent = 0
    /\ hubLog = EmptyLog
    /\ hubErr = "none"

\* Server.mu is free: no Broadcast call is between its Lock and its Unlock.
\* Every other critical section of the hub is one atomic action.
MuFree == ~bc.active

RejectsNever == FALSE

\* addClient: `if s.closed { return false }`.
Rejects == closed

\* Server.addClient, called by handleStream / handleWS once the subscriber
\* with its filter has been built: rejected after Shutdown, else registered.
addClient(c, f) ==
    /\ MuFree
    /\ tpc[c] = "idle"
    /\ IF Rejects
       THEN /\ tpc' = [tpc EXCEPT ![c] = "rejected"]
            /\ UNCHANGED <<clients, ch, chOpen, filt>>
       ELSE /\ clients' = clients \cup {c}
            /\ filt' = [filt EXCEPT ![c] = f]
            /\ ch' = [ch EXCEPT ![c] = <<>>]
            /\ chOpen' = [chOpen EXCEPT ![c] = TRUE]
            /\ tpc' = [tpc EXCEPT ![c] = "loop"]
    /\ UNCHANGED <<closed, bc, nsent, hubLog>>
    /\ UNCHANGED <<hubErr>>
    /\ UNCHANGED exceptHub

\* The handler is in its select loop; "cancelled" is the loop with the
\* request's context done and not yet observed.
InLoop(c) == tpc[c] \in {"loop", "cancelled"}

\* The transport loop's `case msg, ok := <-client.ch` with ok: one message
\* is taken from the channel and written to the transport; a write error
\* ends the loop.
Relay(c, writeOk) ==
    /\ InLoop(c)
    /\ ch[c] # <<>>
    /\ ch' = [ch EXCEPT ![c] = Tail(ch[c])]
    /\ tpc' = [tpc EXCEPT ![c] = IF writeOk THEN @ ELSE "leaving"]
    /\ UNCHANGED <<clients, closed, chOpen, filt, bc, nsent, hubLog>>
    /\ UNCHANGED <<hubErr>>
    /\ UNCHANGED exceptHub

ObserveClosedSpins(c) ==
    /\ InLoop(c)
    /\ ch[c] = <<>>
    /\ ~chOpen[c]
    /\ UNCHANGED vars

\* The same case with !ok: the channel is closed and drained.
ObserveClosed(c) ==
    /\ InLoop(c)
    /\ ch[c] = <<>>
    /\ ~chOpen[c]
    /\ tpc' = [tpc EXCEPT ![c] = "leaving"]
    /\ UNCHANGED <<clients, closed, ch, chOpen, filt, bc, nsent, hubLog>>
    /\ UNCHANGED <<hubErr>>
    /\ UNCHANGED exceptHub

\* The request's context is cancelled (the peer went away, or the socket's
\* read side was closed).
PeerGone(c) ==
    /\ tpc[c] = "loop"
    /\ tpc' = [tpc EXCEPT ![c] = "cancelled"]
    /\ UNCHANGED <<clients, closed, ch, chOpen, filt, bc, nsent, hubLog>>
    /\ UNCHANGED <<hubErr>>
    /\ UNCHANGED exceptHub

\* `case <-ticker.C`: the heartbeat is written (the response's write
\* deadline or the 5 s ping timeout bounds the write); an error ends the
\* loop.
Heartbeat(c, writeOk) ==
    /\ InLoop(c)
    /\ tpc' = [tpc EXCEPT ![c] = IF writeOk THEN @ ELSE "leaving"]
    /\ UNCHANGED <<clients, closed, ch, chOpen, filt, bc, nsent, hubLog>>
    /\ UNCHANGED <<hubErr>>
    /\ UNCHANGED exceptHub

\* `case <-ctx.Done(): return`.
Disconnect(c) ==
    /\ tpc[c] = "cancelled"
    /\ tpc' = [tpc EXCEPT ![c] = "leaving"]
    /\ UNCHANGED <<clients, closed, ch, chOpen, filt, bc, nsent, hubLog>>
    /\ UNCHANGED <<hubErr>>
    /\ UNCHANGED exceptHub

\* close(client.ch) on each channel of cs: closing a channel that is not
\* open is a runtime panic.
CloseErr(cs) ==
    IF \E c \in cs : ~chOpen[c] THEN "closeOfClosed" ELSE hubErr

StillRegisteredAlways(c) == TRUE

\* removeClient: `if _, ok := s.clients[client]; ok`.
StillRegistered(c) == c \in clients

\* Server.removeClient, deferred by the handler. The handler has returned:
\* nothing reads what is left in its channel.
removeClient(c) ==
    /\ MuFree
    /\ tpc[c] = "leaving"
    /\ IF StillRegistered(c)
       THEN /\ clients' = clients \ {c}
            /\ chOpen' = [chOpen EXCEPT ![c] = FALSE]
            /\ hubErr' = CloseErr({c})
       ELSE UNCHANGED <<clients, chOpen, hubErr>>
    /\ tpc' = [tpc EXCEPT ![c] = "exited"]
    /\ ch' = [ch EXCEPT ![c] = <<>>]
    /\ filt' = [filt EXCEPT ![c] = NoFilter]
    /\ UNCHANGED <<closed, bc, nsent, hubLog>>
    /\ UNCHANGED exceptHub

\* Server.Shutdown up to its Unlock.
Shutdown ==
    /\ MuFree
    /\ IF closed
       THEN UNCHANGED <<closed, clients, chOpen>>
       ELSE /\ closed' = TRUE
            /\ chOpen' = [c \in Subs |-> IF c \in clients THEN FALSE ELSE chOpen[c]]
            /\ clients' = {}
    /\ hubErr' = IF closed THEN hubErr ELSE CloseErr(clients)
    /\ UNCHANGED <<ch, filt, tpc, bc, nsent, hubLog>>
    /\ UNCHANGED exceptHub

\* Server.Broadcast: s.mu.Lock().
BroadcastBegin(m) ==
    /\ MuFree
    /\ nsent < MaxBroadcasts
    /\ bc' = [active |-> TRUE, msg |-> m, todo |-> clients]
    /\ nsent' = nsent + 1
    /\ hubLog' = [EmptyLog EXCEPT !.room = {c \in clients : Len(ch[c]) < ChanCap}]
    /\ UNCHANGED <<clients, closed, ch, chOpen, filt, tpc>>
    /\ UNCHANGED <<hubErr>>
    /\ UNCHANGED exceptHub

SendIgnoresFilter(c, m) ==
    IF Len(ch[c]) < ChanCap THEN "sent" ELSE "drop"

SendBlocksWhenFull(c, m) ==
    IF ~Matches(filt[c], m) THEN "skip"
    ELSE IF Len(ch[c]) < ChanCap THEN "sent"
    ELSE "block"

\* The body of Broadcast's loop for one client: the filter, then
\* `select { case client.ch <- msg: default: }`.
SendOutcome(c, m) ==
    IF ~Matches(filt[c], m) THEN "skip"
    ELSE IF Len(ch[c]) < ChanCap THEN "sent"
    ELSE "drop"

RestAfterAbortOnFull(todo, c, o) == IF o = "drop" THEN {} ELSE todo \ {c}

\* The clients the range loop still has to visit after client c.
RestAfter(todo, c, o) == todo \ {c}

\* One iteration of `for client := range s.clients` (any order). A select
\* that reaches `case client.ch <- msg` on a closed channel panics.
BroadcastStep(c) ==
    /\ bc.active
    /\ c \in bc.todo
    /\ LET o == SendOutcome(c, bc.msg) IN
         /\ o \in {"skip", "sent", "drop"}
         /\ ch' = IF o = "sent" THEN [ch EXCEPT ![c] = Append(ch[c], bc.msg)] ELSE ch
         /\ bc' = [bc EXCEPT !.todo = RestAfter(bc.todo, c, o)]
         /\ hubLog' = CASE o = "sent" -> [hubLog EXCEPT !.got = @ \cup {c}]
                         [] o = "drop" -> [hubLog EXCEPT !.full = @ \cup {c}]
                         [] OTHER      -> [hubLog EXCEPT !.skipped = @ \cup {c}]
         /\ hubErr' = IF o # "skip" /\ ~chOpen[c] THEN "sendOnClosed" ELSE hubErr
    /\ UNCHANGED <<clients, closed, chOpen, filt, tpc, nsent>>
    /\ UNCHANGED exceptHub

\* Broadcast returns: the deferred s.mu.Unlock().
BroadcastEnd ==
    /\ bc.active
    /\ bc.todo = {}
    /\ bc' = NoBroadcast
    /\ hubLog' = EmptyLog
    /\ UNCHANGED <<clients, closed, ch, chOpen, filt, tpc, nsent>>
    /\ UNCHANGED <<hubErr>>
    /\ UNCHANGED exceptHub

----------------------------------------------------------------------------
(* The Twitch IRC receiver: Client.Run and Client.runOnce.                 *)

\* Number of distinct credentials.
NumCreds == 2

Creds == 1 .. NumCreds

SessionTokenCached(cfgT, provT) == cfgT

\* runOnce's choice of token: Config.Token, overridden by a non-blank
\* TokenProvider() read at the start of every attempt.
SessionToken(cfgT, provT) == IF provT # 0 THEN provT ELSE cfgT

\* backoff := time.Second / refreshBackoff := time.Second
BackoffSeed == 1
RefreshSeed == 1
\* 60*time.Second / time.Minute
BackoffCap == 60
RefreshCap == 60

NextBackoffUncapped(b) == b * 2

\* if backoff < 60*time.Second { backoff *= 2; if backoff > 60s { backoff = 60s } }
NextBackoff(b) ==
    IF b < BackoffCap THEN Min(b * 2, BackoffCap) ELSE b

\* The same statement on refreshBackoff.
NextRefreshBackoff(b) ==
    IF b < RefreshCap THEN Min(b * 2, RefreshCap) ELSE b

\* The lines the server may send, by what the read loop looks at: the line
\* trimmed to nothing, an authentication-failure phrase anywhere in it, the
\* "PING " prefix, " RECONNECT" anywhere in it, and whether parsePrivmsg
\* accepts it as a chat post of the configured channel (with its text).
Lines ==
    { [blank |-> TRUE,  auth |-> FALSE, ping |-> FALSE, reconn |-> FALSE, priv |-> FALSE, text |-> ""],
      [blank |-> FALSE, auth |-> TRUE,  ping |-> FALSE, reconn |-> FALSE, priv |-> FALSE, text |-> ""],
      [blank |-> FALSE, auth |-> FALSE, ping |-> TRUE,  reconn |-> FALSE, priv |-> FALSE, text |-> ""],
      [blank |-> FALSE, auth |-> FALSE, ping |-> FALSE, reconn |-> TRUE,  priv |-> FALSE, text |-> ""],
      [blank |-> FALSE, auth |-> FALSE, ping |-> FALSE, reconn |-> FALSE, priv |-> FALSE, text |-> ""],
      [blank |-> FALSE, auth |-> FALSE, ping |-> FALSE, reconn |-> FALSE, priv |-> TRUE,  text |-> "a"],
      [blank |-> FALSE, auth |-> FALSE, ping |-> FALSE, reconn |-> FALSE, priv |-> TRUE,  text |-> "b"],
      [blank |-> FALSE, auth |-> TRUE,  ping |-> FALSE, reconn |-> FALSE, priv |-> TRUE,  text |-> "c"],
      [blank |-> FALSE, auth |-> FALSE, ping |-> FALSE, reconn |-> TRUE,  priv |-> TRUE,  text |-> "d"] }

\* What the read loop does with a line, in the order of its tests
\* (client.go 257-285).
Route(line) ==
    IF line.blank       THEN "skip"
    ELSE IF line.auth   THEN "authFailed"
    ELSE IF line.ping   THEN "pong"
    ELSE IF line.reconn THEN "reconnect"
    ELSE IF line.priv   THEN "handle"
    ELSE "drop"

HandlerCallsTwice(h, line) == h \o <<line.text, line.text>>

\* `if c.handle != nil { c.handle(msg) }` for the message built from line.
HandlerCalls(h, line) == Append(h, line.text)

ConnLeftOpen(c) == c

\* The deferred conn.Close() of runOnce (no connection before the dial
\* succeeded; closing a closed connection changes nothing).
ConnAfterReturn(c) == IF c = "open" THEN "closed" ELSE c

\* The errors runOnce can return at each position. "dialTimeout" is the
\* Dialer's 10 s timeout (net's timeout error, for which
\* errors.Is(err, context.DeadlineExceeded) holds); "canceled" is ctx.Err()
\* at the top of the read loop ("loop") or the dial interrupted by the
\* context, and needs the signal fired. In "read" the loop is in
\* ReadString or handling the line it returned.
\* runOnce has no path that returns nil.
RunOnceErrors(ph, done) ==
    CASE ph = "dial" -> {"tokenRequired", "dialErr", "dialTimeout"}
                          \cup (IF done THEN {"canceled"} ELSE {})
      [] ph = "auth" -> {"sendErr"}
      [] ph = "loop" -> IF done THEN {"canceled"} ELSE {}
      [] ph = "read" -> {"readErr", "sendErr", "authFailed", "reconnect"}
      [] OTHER       -> {}

\* errors.Is(err, context.Canceled) || errors.Is(err, context.DeadlineExceeded)
IsContextError(err) == err \in {"canceled", "dialTimeout"}

AuthFailRouteIgnoresRefresh(configured) == "backoffSleep"

\* Where Run goes on errAuthFailed: `if c.cfg.RefreshNow == nil`.
AuthFailRoute(configured) ==
    IF configured THEN "refresh" ELSE "backoffSleep"

RefreshDelayShared == backoff

\* time.NewTimer(refreshBackoff)
RefreshDelay == refreshBackoff

EmptyIrcLog ==
    [slept |-> 0, lastSlept |-> 0, rslept |-> 0, lastRSlept |-> 0,
     reachedRead |-> FALSE, needRefresh |-> FALSE, refreshOk |-> FALSE,
     lastErr |-> "none", rejected |-> 0, afterRefresh |-> FALSE,
     dropped |-> FALSE, endPriv |-> FALSE, paused |-> FALSE]

IrcIdle ==
    /\ rpc = "init"
    /\ phase = "none"
    /\ backoff = 0
    /\ refreshBackoff = 0
    /\ ctxDone = FALSE
    /\ cfgOk = TRUE
    /\ refreshCfg = FALSE
    /\ retval = "none"
    /\ ircLog = EmptyIrcLog
    /\ cfgTok = 1
    /\ provTok = 1
    /\ sessTok = 0
    /\ conn = "none"
    /\ watcher = "none"
    /\ lingering = {}
    /\ arrived = <<>>
    /\ handled = <<>>

\* The IRC receiver is not run.
IrcOff ==
    /\ rpc = "off"
    /\ phase = "none"
    /\ backoff = 0
    /\ refreshBackoff = 0
    /\ ctxDone = FALSE
    /\ cfgOk = TRUE
    /\ refreshCfg = FALSE
    /\ retval = "none"
    /\ ircLog = EmptyIrcLog
    /\ cfgTok = 1
    /\ provTok = 1
    /\ sessTok = 0
    /\ conn = "none"
    /\ watcher = "none"
    /\ lingering = {}
    /\ arrived = <<>>
    /\ handled = <<>>

IrcInit ==
    /\ rpc = "init"
    /\ phase = "none"
    /\ backoff = 0
    /\ refreshBackoff = 0
    /\ ctxDone = FALSE
    /\ cfgOk \in BOOLEAN
    /\ refreshCfg \in BOOLEAN
    /\ retval = "none"
    /\ ircLog = EmptyIrcLog
    /\ cfgTok \in {0, 1}
    /\ provTok \in (IF refreshCfg THEN {1} ELSE {0, 1})
    /\ sessTok = 0
    /\ conn = "none"
    /\ watcher = "none"
    /\ lingering = {}
    /\ arrived = <<>>
    /\ handled = <<>>

\* Run returns ctx.Err(): context.Canceled once the signal has fired, nil
\* before.
CtxErr == IF ctxDone THEN "canceled" ELSE "nil"

\* Run's entry: the channel/nick check, then the two local delays.
RunStart ==
    /\ rpc = "init"
    /\ IF cfgOk
       THEN /\ rpc' = "top"
            /\ backoff' = BackoffSeed
            /\ refreshBackoff' = RefreshSeed
            /\ retval' = retval
       ELSE /\ rpc' = "returned"
            /\ retval' = "configError"
            /\ UNCHANGED <<backoff, refreshBackoff>>
    /\ UNCHANGED <<phase, ctxDone, cfgOk, refreshCfg, ircLog>>
    /\ UNCHANGED <<cfgTok, provTok, sessTok>>
    /\ UNCHANGED <<conn, watcher, lingering, arrived, handled>>
    /\ UNCHANGED exceptIrc

\* Top of Run's loop: `if ctx.Err() != nil { return ctx.Err() }`, else
\* the call of runOnce.
LoopTop ==
    /\ rpc = "top"
    /\ IF ctxDone
       THEN /\ rpc' = "returned"
            /\ retval' = CtxErr
            /\ UNCHANGED <<phase, ircLog, sessTok, conn, arrived, handled>>
       ELSE /\ rpc' = "session"
            /\ phase' = "dial"
            /\ sessTok' = SessionToken(cfgTok, provTok)
            /\ ircLog' = [ircLog EXCEPT !.reachedRead = FALSE, !.dropped = FALSE,
                                        !.endPriv = FALSE, !.paused = FALSE]
            /\ retval' = retval
            /\ conn' = "none"
            /\ arrived' = <<>>
            /\ handled' = <<>>
    /\ UNCHANGED <<backoff, refreshBackoff, ctxDone, cfgOk, refreshCfg>>
    /\ UNCHANGED <<cfgTok, provTok, watcher, lingering>>
    /\ UNCHANGED exceptIrc

\* runOnce: the token is there and the dial succeeds; conn.Close() is
\* deferred and the watcher goroutine is started on ctx.Done() and done.
DialOk ==
    /\ rpc = "session"
    /\ phase = "dial"
    /\ sessTok # 0
    /\ lingering # Watchers
    /\ phase' = "auth"
    /\ conn' = "open"
    /\ watcher' = "waiting"
    /\ UNCHANGED <<rpc, backoff, refreshBackoff, ctxDone, cfgOk, refreshCfg,
                   retval, ircLog>>
    /\ UNCHANGED <<cfgTok, provTok, sessTok, lingering, arrived, handled>>
    /\ UNCHANGED exceptIrc

\* runOnce: PASS, NICK, CAP REQ and JOIN are sent; the read loop starts.
AuthSent ==
    /\ rpc = "session"
    /\ phase = "auth"
    /\ phase' = "loop"
    /\ ircLog' = [ircLog EXCEPT !.reachedRead = TRUE]
    /\ UNCHANGED <<rpc, backoff, refreshBackoff, ctxDone, cfgOk, refreshCfg,
                   retval>>
    /\ UNCHANGED <<cfgTok, provTok, sessTok>>
    /\ UNCHANGED <<conn, watcher, lingering, arrived, handled>>
    /\ UNCHANGED exceptIrc

\* Top of the read loop with the signal not fired: SetReadDeadline, then
\* the call of ReadString.
LoopCheck ==
    /\ rpc = "session"
    /\ phase = "loop"
    /\ ~ctxDone
    /\ phase' = "read"
    /\ UNCHANGED <<rpc, backoff, refreshBackoff, ctxDone, cfgOk, refreshCfg,
                   retval, ircLog>>
    /\ UNCHANGED <<cfgTok, provTok, sessTok>>
    /\ UNCHANGED <<conn, watcher, lingering, arrived, handled>>
    /\ UNCHANGED exceptIrc

\* ReadString returns a line (from the socket, or from the reader's buffer
\* after the socket was closed) that does not end the attempt: dropped,
\* answered with PONG, or parsed and handed to the handler. The loop
\* continues at its top.
ReadLine(line) ==
    /\ rpc = "session"
    /\ phase = "read"
    /\ Route(line) \in {"skip", "pong", "handle", "drop"}
    /\ phase' = "loop"
    /\ IF Route(line) = "handle"
       THEN /\ Len(arrived) < MaxLines
            /\ arrived' = Append(arrived, line.text)
       ELSE arrived' = arrived
    /\ handled' = IF Route(line) = "handle" THEN HandlerCalls(handled, line)
                  ELSE handled
    /\ ircLog' = IF Route(line) = "drop" /\ arrived # <<>>
                 THEN [ircLog EXCEPT !.dropped = TRUE]
                 ELSE ircLog
    /\ UNCHANGED <<rpc, backoff, refreshBackoff, ctxDone, cfgOk,
                   refreshCfg, retval>>
    /\ UNCHANGED <<cfgTok, provTok, sessTok>>
    /\ UNCHANGED <<conn, watcher, lingering>>
    /\ UNCHANGED exceptIrc

\* ReadString fails with a timeout (the 2 min read deadline): a keepalive
\* PING may be sent, and the loop continues at its top.
ReadTimeout ==
    /\ rpc = "session"
    /\ phase = "read"
    /\ phase' = "loop"
    /\ UNCHANGED <<rpc, backoff, refreshBackoff, ctxDone, cfgOk,
                   refreshCfg, retval, ircLog>>
    /\ UNCHANGED <<cfgTok, provTok, sessTok>>
    /\ UNCHANGED <<conn, watcher, lingering, arrived, handled>>
    /\ UNCHANGED exceptIrc

\* The watcher of the attempt in progress takes `case <-ctx.Done()`:
\* conn.Close(), which makes a blocked ReadString fail.
WatcherFire ==
    /\ watcher = "waiting"
    /\ ctxDone
    /\ watcher' = "exited"
    /\ conn' = "closed"
    /\ UNCHANGED <<rpc, phase, backoff, refreshBackoff, ctxDone, cfgOk,
                   refreshCfg, retval, ircLog>>
    /\ UNCHANGED <<cfgTok, provTok, sessTok, lingering, arrived, handled>>
    /\ UNCHANGED exceptIrc

\* The watcher of an ended attempt is scheduled: its done channel is
\* closed (or ctx is done, and it closes a connection already closed), so
\* its select returns and the goroutine ends.
WatcherExit(w) ==
    /\ w \in lingering
    /\ lingering' = lingering \ {w}
    /\ UNCHANGED <<rpc, phase, backoff, refreshBackoff, ctxDone, cfgOk,
                   refreshCfg, retval, ircLog>>
    /\ UNCHANGED <<cfgTok, provTok, sessTok, conn, watcher, arrived, handled>>
    /\ UNCHANGED exceptIrc

\* Whether the line on which the read loop returned err can be a chat
\* post: the loop tests authFailure(line) and " RECONNECT" on the whole
\* line before parsePrivmsg (client.go 262-279).
EndingLines(ph, err) ==
    IF ph = "read" /\ err \in {"authFailed", "reconnect"}
    THEN { l.priv : l \in { x \in Lines : Route(x) = err } }
    ELSE {FALSE}

\* runOnce returns err and Run dispatches on it (client.go 54-131, up to
\* the timer it starts).
SessionEnd(err) ==
    /\ rpc = "session"
    /\ err \in RunOnceErrors(phase, ctxDone)
    /\ (phase = "dial") => (err = "tokenRequired" <=> sessTok = 0)
    /\ phase' = "none"
    /\ conn' = ConnAfterReturn(conn)
    /\ watcher' = "none"
    /\ lingering' = IF watcher = "waiting"
                    THEN lingering \cup {CHOOSE w \in Watchers : w \notin lingering}
                    ELSE lingering
    /\ IF ctxDone \/ IsContextError(err)
       THEN /\ rpc' = "returned"
            /\ retval' = CtxErr
            /\ \E ep \in EndingLines(phase, err) :
                ircLog' = [ircLog EXCEPT !.lastErr = err, !.afterRefresh = FALSE,
                                         !.endPriv = ep]
       ELSE IF err = "authFailed"
       THEN /\ rpc' = AuthFailRoute(refreshCfg)
            /\ retval' = retval
            /\ \E ep \in EndingLines(phase, err) :
                ircLog' = [ircLog EXCEPT
                            !.endPriv = ep,
                            !.lastErr = err,
                            !.rejected = sessTok,
                            !.afterRefresh = FALSE,
                            !.needRefresh = refreshCfg,
                            !.slept = IF AuthFailRoute(refreshCfg) = "backoffSleep"
                                     THEN backoff ELSE 0,
                            !.lastRSlept = 0]
       ELSE /\ rpc' = "backoffSleep"
            /\ retval' = retval
            /\ \E ep \in EndingLines(phase, err) :
                ircLog' = [ircLog EXCEPT !.lastErr = err, !.slept = backoff,
                                         !.afterRefresh = FALSE, !.endPriv = ep]
    /\ UNCHANGED <<backoff, refreshBackoff, ctxDone, cfgOk, refreshCfg>>
    /\ UNCHANGED <<cfgTok, provTok, sessTok>>
    /\ UNCHANGED <<arrived, handled>>
    /\ UNCHANGED exceptIrc

\* The generic timer fires: the delay is advanced and the loop continues.
BackoffElapsed ==
    /\ rpc = "backoffSleep"
    /\ backoff' = NextBackoff(backoff)
    /\ rpc' = "top"
    /\ ircLog' = [ircLog EXCEPT !.lastSlept = ircLog.slept, !.slept = 0,
                                !.endPriv = FALSE, !.paused = TRUE]
    /\ UNCHANGED <<phase, refreshBackoff, ctxDone, cfgOk, refreshCfg, retval>>
    /\ UNCHANGED <<cfgTok, provTok, sessTok>>
    /\ UNCHANGED <<conn, watcher, lingering, arrived, handled>>
    /\ UNCHANGED exceptIrc

\* `case <-ctx.Done()` of either timer's select.
SleepCancelled ==
    /\ rpc \in {"backoffSleep", "refreshSleep"}
    /\ ctxDone
    /\ rpc' = "returned"
    /\ retval' = CtxErr
    /\ UNCHANGED <<phase, backoff, refreshBackoff, ctxDone, cfgOk, refreshCfg,
                   ircLog>>
    /\ UNCHANGED <<cfgTok, provTok, sessTok>>
    /\ UNCHANGED <<conn, watcher, lingering, arrived, handled>>
    /\ UNCHANGED exceptIrc

\* Top of the refresh loop: the ctx check, then the call of RefreshNow.
RefreshInvoke ==
    /\ rpc = "refresh"
    /\ IF ctxDone
       THEN /\ rpc' = "returned"
            /\ retval' = CtxErr
            /\ ircLog' = ircLog
       ELSE /\ rpc' = "refreshing"
            /\ retval' = retval
            /\ ircLog' = [ircLog EXCEPT !.needRefresh = FALSE, !.refreshOk = FALSE,
                                        !.endPriv = FALSE]
    /\ UNCHANGED <<phase, backoff, refreshBackoff, ctxDone, cfgOk, refreshCfg>>
    /\ UNCHANGED <<cfgTok, provTok, sessTok>>
    /\ UNCHANGED <<conn, watcher, lingering, arrived, handled>>
    /\ UNCHANGED exceptIrc

\* RefreshNow returns (client.go 85-96).
RefreshReturn(ok) ==
    /\ rpc = "refreshing"
    /\ IF ok
       THEN /\ refreshBackoff' = RefreshSeed
            /\ backoff' = BackoffSeed
            /\ rpc' = "top"
            /\ retval' = retval
            /\ ircLog' = [ircLog EXCEPT !.refreshOk = TRUE, !.lastSlept = 0,
                                        !.lastRSlept = 0, !.afterRefresh = TRUE]
            /\ \E n \in Creds \ {provTok} : provTok' = n
       ELSE IF ctxDone
       THEN /\ rpc' = "returned"
            /\ retval' = CtxErr
            /\ UNCHANGED <<backoff, refreshBackoff, ircLog, provTok>>
       ELSE /\ rpc' = "refreshSleep"
            /\ retval' = retval
            /\ ircLog' = [ircLog EXCEPT !.rslept = RefreshDelay]
            /\ UNCHANGED <<backoff, refreshBackoff, provTok>>
    /\ UNCHANGED <<phase, ctxDone, cfgOk, refreshCfg, cfgTok, sessTok>>
    /\ UNCHANGED <<conn, watcher, lingering, arrived, handled>>
    /\ UNCHANGED exceptIrc

\* The refresh timer fires: refreshBackoff is advanced, the loop repeats.
RefreshElapsed ==
    /\ rpc = "refreshSleep"
    /\ refreshBackoff' = NextRefreshBackoff(refreshBackoff)
    /\ rpc' = "refresh"
    /\ ircLog' = [ircLog EXCEPT !.lastRSlept = ircLog.rslept, !.rslept = 0,
                                !.paused = TRUE]
    /\ UNCHANGED <<phase, backoff, ctxDone, cfgOk, refreshCfg, retval>>
    /\ UNCHANGED <<cfgTok, provTok, sessTok>>
    /\ UNCHANGED <<conn, watcher, lingering, arrived, handled>>
    /\ UNCHANGED exceptIrc

\* The caller cancels the context given to Run.
Cancel ==
    /\ ~ctxDone
    /\ rpc \notin {"returned", "off"}
    /\ ctxDone' = TRUE
    /\ UNCHANGED <<rpc, phase, backoff, refreshBackoff, cfgOk, refreshCfg,
                   retval, ircLog>>
    /\ UNCHANGED <<cfgTok, provTok, sessTok>>
    /\ UNCHANGED <<conn, watcher, lingering, arrived, handled>>
    /\ UNCHANGED exceptIrc

----------------------------------------------------------------------------
(* The YouTube polling receiver: ytlive Client.Run. A key, a version and a *)
(* continuation are numbers, 0 standing for the empty string.              *)

YtSeed == 1
YtCap == 60

YtNextBackoffUncapped(b) == b * 2

\* if backoff < maxBackoff { backoff *= 2; if backoff > maxBackoff { ... } }
YtNextBackoff(b) ==
    IF b < YtCap THEN Min(b * 2, YtCap) ELSE b

NeedsBootstrapNever(k, v, c) == FALSE

\* if apiKey == "" || clientVersion == "" || continuation == ""
NeedsBootstrap(k, v, c) == k = 0 \/ v = 0 \/ c = 0

YtCancelledNever(done) == FALSE

\* ctx.Err() != nil at the top of Run's loop
YtCancelled(done) == done

\* Instants of the wall clock (time.Now), and the time a message carries.
Clock == 1 .. NumTimes

\* The actions of a poll response, by what extractMessages and buildMessage
\* look at: whether the action holds a text renderer, the renderer's
\* message text, its id, its authorName and its timestampUsec (0: the key
\* is missing or does not parse).
Renderers ==
    [chat : BOOLEAN, text : {"", "a", "b"}, id : {"", "y1"},
     author : {"", "u"}, usec : {0} \cup Clock]

NoMessage == [id |-> <<>>, platform |-> "", username |-> "", text |-> "", ts |-> 0]

\* timestampField: the renderer's time, time.Now() when it has none.
timestampField(r, now) == IF r.usec = 0 THEN now ELSE r.usec

buildMessageKeepsEmpty(r, now) ==
    [ok |-> TRUE,
     msg |-> [id |-> IF r.id = "" THEN <<"yt-", ToString(now)>> ELSE <<r.id>>,
              platform |-> "YouTube",
              username |-> r.author,
              text |-> r.text,
              ts |-> timestampField(r, now)]]

\* buildMessage: no message for an empty text; the id is the renderer's
\* id or "yt-<time.Now().UnixNano()>".
buildMessage(r, now) ==
    IF r.text = ""
    THEN [ok |-> FALSE, msg |-> NoMessage]
    ELSE [ok |-> TRUE,
          msg |-> [id |-> IF r.id = "" THEN <<"yt-", ToString(now)>> ELSE <<r.id>>,
                   platform |-> "YouTube",
                   username |-> r.author,
                   text |-> r.text,
                   ts |-> timestampField(r, now)]]

\* extractMessages: the messages built from the actions that hold a text
\* renderer, in the order of the actions; the others are set aside.
RECURSIVE extractMessages(_, _)
extractMessages(actions, now) ==
    IF actions = <<>> THEN <<>>
    ELSE LET r == Head(actions)
             rest == extractMessages(Tail(actions), now)
         IN  IF r.chat /\ buildMessage(r, now).ok
             THEN <<buildMessage(r, now).msg>> \o rest
             ELSE rest

\* The chat item with text t, an item with empty text, a non-chat action.
ChatItem(t) == [chat |-> TRUE, text |-> t, id |-> "y1", author |-> "u", usec |-> 1]
EmptyItem == [chat |-> TRUE, text |-> "", id |-> "y1", author |-> "u", usec |-> 1]
OtherAction == [chat |-> FALSE, text |-> "", id |-> "", author |-> "", usec |-> 0]

\* The action lists a successful poll may carry.
Payloads ==
    { <<>>, <<ChatItem("a")>>, <<ChatItem("b")>>,
      <<ChatItem("a"), ChatItem("b")>>, <<ChatItem("b"), ChatItem("a")>>,
      <<EmptyItem>>, <<OtherAction>>,
      <<ChatItem("a"), EmptyItem, ChatItem("b")>>,
      <<OtherAction, ChatItem("b"), EmptyItem>> }

\* The texts of the messages the handler is called with for a payload.
Batch(payload, now) ==
    LET msgs == extractMessages(payload, now) IN
    [i \in 1 .. Len(msgs) |-> msgs[i].text]

\* `for _, msg := range messages { c.handler(msg) }`
RECURSIVE HandleBatch(_, _)
HandleBatch(h, batch) ==
    IF batch = <<>> THEN h
    ELSE HandleBatch(Append(h, Head(batch)), Tail(batch))

NoCache == [key |-> 0, ver |-> 0, cont |-> 0]

\* const defaultLivePollDelay = 3 * time.Second, in milliseconds
defaultLivePollDelay == 3000

\* Config.PollIntervalMS: unset, negative, or an interval.
PollIntervals == {0, -1, 4500}

\* New: the poll delay a Client starts with.
NewPollDelay(ms) == IF ms > 0 THEN ms ELSE defaultLivePollDelay

\* The timeoutMs a poll response may carry next to its continuation:
\* none, zero, a negative number, or a wait in milliseconds.
Waits ==
    { [present |-> FALSE, ms |-> 0],
      [present |-> TRUE,  ms |-> 0],
      [present |-> TRUE,  ms |-> -1],
      [present |-> TRUE,  ms |-> 2500] }

NoWait == [present |-> FALSE, ms |-> 0]

\* extractContinuation: a timeoutMs counts only if it is positive.
ExtractTimeout(w) ==
    IF w.present /\ w.ms > 0
    THEN [timeoutMs |-> w.ms, hasTimeout |-> TRUE]
    ELSE [timeoutMs |-> 0, hasTimeout |-> FALSE]

nextLivePollDelayFallbackOnly(timeoutMs, hasTimeout, fallback) ==
    [delay |-> fallback, fromContinuation |-> FALSE]

nextLivePollDelay(timeoutMs, hasTimeout, fallback) ==
    IF hasTimeout /\ timeoutMs > 0
    THEN [delay |-> timeoutMs, fromContinuation |-> TRUE]
    ELSE IF fallback <= 0
    THEN [delay |-> defaultLivePollDelay, fromContinuation |-> FALSE]
    ELSE [delay |-> fallback, fromContinuation |-> FALSE]

EmptyYtLog ==
    [last |-> "none", slept |-> 0, lastSlept |-> 0, backedOff |-> TRUE,
     fresh |-> NoCache, issued |-> NoCache,
     wait |-> NoWait, delay |-> 0, skipped |-> FALSE, failSlept |-> 0]

YtIdle ==
    /\ ypc = "init"
    /\ liveURLOk = TRUE
    /\ ybackoff = 0
    /\ apiKey = 0
    /\ clientVersion = 0
    /\ continuation = 0
    /\ yctxDone = FALSE
    /\ pollDelay = defaultLivePollDelay
    /\ polled = <<>>
    /\ delivered = <<>>
    /\ ytLog = EmptyYtLog

\* The polling receiver is not run.
YtOff ==
    /\ ypc = "off"
    /\ liveURLOk = TRUE
    /\ ybackoff = 0
    /\ apiKey = 0
    /\ clientVersion = 0
    /\ continuation = 0
    /\ yctxDone = FALSE
    /\ pollDelay = defaultLivePollDelay
    /\ polled = <<>>
    /\ delivered = <<>>
    /\ ytLog = EmptyYtLog

YtInit ==
    /\ ypc = "init"
    /\ liveURLOk \in BOOLEAN
    /\ ybackoff = 0
    /\ apiKey = 0
    /\ clientVersion = 0
    /\ continuation = 0
    /\ yctxDone = FALSE
    /\ pollDelay \in {NewPollDelay(ms) : ms \in PollIntervals}
    /\ polled = <<>>
    /\ delivered = <<>>
    /\ ytLog = EmptyYtLog

\* Run's entry: the LiveURL checks, then the locals.
YtRunStart ==
    /\ ypc = "init"
    /\ IF liveURLOk
       THEN /\ ypc' = "top"
            /\ ybackoff' = YtSeed
       ELSE /\ ypc' = "returned"
            /\ ybackoff' = ybackoff
    /\ UNCHANGED <<liveURLOk, apiKey, clientVersion, continuation, yctxDone,
                   polled, delivered, ytLog>>
    /\ UNCHANGED <<pollDelay>>
    /\ UNCHANGED exceptYt

\* Top of Run's loop: the ctx check, then either the bootstrap request or,
\* with a complete cache, the poll request.
YtLoopTop ==
    /\ ypc = "top"
    /\ IF YtCancelled(yctxDone)
       THEN /\ ypc' = "returned"
            /\ ytLog' = ytLog
       ELSE IF NeedsBootstrap(apiKey, clientVersion, continuation)
       THEN /\ ypc' = "bootstrapping"
            /\ ytLog' = ytLog
       ELSE /\ ypc' = "polling"
            /\ ytLog' = [ytLog EXCEPT !.issued = [key |-> apiKey,
                                                 ver |-> clientVersion,
                                                 cont |-> continuation]]
    /\ UNCHANGED <<liveURLOk, ybackoff, apiKey, clientVersion, continuation,
                   yctxDone, polled, delivered>>
    /\ UNCHANGED <<pollDelay>>
    /\ UNCHANGED exceptYt

\* c.bootstrap succeeds (all three values non-empty): the backoff is reset
\* and the poll request is issued with them.
BootstrapOk(k, v, c) ==
    /\ ypc = "bootstrapping"
    /\ ~yctxDone
    /\ apiKey' = k
    /\ clientVersion' = v
    /\ continuation' = c
    /\ ybackoff' = YtSeed
    /\ ypc' = "polling"
    /\ ytLog' = [ytLog EXCEPT !.last = "bootOk",
                             !.fresh = [key |-> k, ver |-> v, cont |-> c],
                             !.issued = [key |-> k, ver |-> v, cont |-> c],
                             !.lastSlept = 0]
    /\ UNCHANGED <<liveURLOk, yctxDone, polled, delivered>>
    /\ UNCHANGED <<pollDelay>>
    /\ UNCHANGED exceptYt

\* c.bootstrap fails (it returns "", "", "", err): sleepContext(ctx, backoff)
\* starts.
BootstrapFail ==
    /\ ypc = "bootstrapping"
    /\ apiKey' = 0
    /\ clientVersion' = 0
    /\ continuation' = 0
    /\ ypc' = "bootSleep"
    /\ ytLog' = [ytLog EXCEPT !.last = "bootFail", !.slept = ybackoff,
                             !.backedOff = FALSE, !.failSlept = 0]
    /\ UNCHANGED <<liveURLOk, ybackoff, yctxDone, polled, delivered>>
    /\ UNCHANGED <<pollDelay>>
    /\ UNCHANGED exceptYt

\* sleepContext returns in the bootstrap closure: true after the timer
\* (the backoff is advanced), false on ctx.Done(); the closure returns
\* false either way and Run's loop continues.
BootSleepEnd(woke) ==
    /\ ypc = "bootSleep"
    /\ woke \/ yctxDone
    /\ ybackoff' = IF woke THEN YtNextBackoff(ybackoff) ELSE ybackoff
    /\ ypc' = "top"
    /\ ytLog' = [ytLog EXCEPT !.slept = 0,
                             !.lastSlept = IF woke THEN ytLog.slept ELSE @,
                             !.backedOff = woke]
    /\ UNCHANGED <<liveURLOk, apiKey, clientVersion, continuation, yctxDone,
                   polled, delivered>>
    /\ UNCHANGED <<pollDelay>>
    /\ UNCHANGED exceptYt

\* c.poll succeeds: the handler is called for each message of the batch,
\* the continuation is carried forward or, when the response has none, the
\* cache is discarded; the sleep to the next poll starts.
PollOk(payload, next, w) ==
    /\ ypc = "polling"
    /\ ~yctxDone
    /\ \E now \in Clock :
          LET batch == Batch(payload, now) IN
          /\ Len(polled) + Len(batch) <= MaxPolled
          /\ polled' = polled \o batch
          /\ delivered' = HandleBatch(delivered, batch)
    /\ continuation' = next
    /\ apiKey' = IF next = 0 THEN 0 ELSE apiKey
    /\ clientVersion' = IF next = 0 THEN 0 ELSE clientVersion
    /\ ypc' = "pollSleep"
    /\ LET t == ExtractTimeout(w)
           d == nextLivePollDelay(t.timeoutMs, t.hasTimeout, pollDelay)
       IN /\ pollDelay' = IF ~d.fromContinuation /\ d.delay > 0 /\ pollDelay # d.delay
                          THEN d.delay ELSE pollDelay
          /\ ytLog' = [ytLog EXCEPT
                          !.last = IF next = 0 THEN "pollNoCont" ELSE "pollOk",
                          !.fresh = [@ EXCEPT !.cont = next],
                          !.wait = w,
                          !.delay = d.delay,
                          !.failSlept = 0,
                          !.skipped = \E i \in 1 .. Len(payload) :
                                         payload[i].chat /\ payload[i].text = ""]
    /\ UNCHANGED <<liveURLOk, ybackoff, yctxDone>>
    /\ UNCHANGED exceptYt

\* c.poll fails: sleepContext(ctx, backoff) starts.
PollFail ==
    /\ ypc = "polling"
    /\ ypc' = "failSleep"
    /\ ytLog' = [ytLog EXCEPT !.last = "pollFail", !.slept = ybackoff,
                             !.backedOff = FALSE]
    /\ UNCHANGED <<liveURLOk, ybackoff, apiKey, clientVersion, continuation,
                   yctxDone, polled, delivered>>
    /\ UNCHANGED <<pollDelay>>
    /\ UNCHANGED exceptYt

\* sleepContext returns after a poll failure: false on ctx.Done() (Run
\* returns ctx.Err()), true after the timer (the backoff is advanced, the
\* cache discarded, the loop continues).
FailSleepEnd(woke) ==
    /\ ypc = "failSleep"
    /\ woke \/ yctxDone
    /\ IF woke
       THEN /\ ybackoff' = YtNextBackoff(ybackoff)
            /\ apiKey' = 0
            /\ clientVersion' = 0
            /\ continuation' = 0
            /\ ypc' = "top"
            /\ ytLog' = [ytLog EXCEPT !.slept = 0, !.lastSlept = ytLog.slept,
                                     !.backedOff = TRUE,
                                     !.failSlept = ytLog.slept]
       ELSE /\ ypc' = "returned"
            /\ ytLog' = [ytLog EXCEPT !.slept = 0]
            /\ UNCHANGED <<ybackoff, apiKey, clientVersion, continuation>>
    /\ UNCHANGED <<liveURLOk, yctxDone, polled, delivered>>
    /\ UNCHANGED <<pollDelay>>
    /\ UNCHANGED exceptYt

\* sleepContext(ctx, delay) returns at the end of a successful iteration.
PollSleepEnd(woke) ==
    /\ ypc = "pollSleep"
    /\ woke \/ yctxDone
    /\ ypc' = IF woke THEN "top" ELSE "returned"
    /\ ytLog' = [ytLog EXCEPT !.delay = 0, !.wait = NoWait, !.skipped = FALSE]
    /\ UNCHANGED <<liveURLOk, ybackoff, apiKey, clientVersion, continuation,
                   yctxDone, pollDelay, polled, delivered>>
    /\ UNCHANGED exceptYt

\* The caller cancels the context given to Run.
YtCancel ==
    /\ ~yctxDone
    /\ ypc \notin {"returned", "off"}
    /\ yctxDone' = TRUE
    /\ UNCHANGED <<ypc, liveURLOk, ybackoff, apiKey, clientVersion,
                   continuation, polled, delivered, ytLog>>
    /\ UNCHANGED <<pollDelay>>
    /\ UNCHANGED exceptYt

----------------------------------------------------------------------------
(* The YouTube supervisor: the goroutine of main that re-resolves the      *)
(* channel and owns the poller task. A watch URL is a number, 0 the empty  *)
(* string. A poller task is ytlive Client.Run under its own pollCtx.       *)

Pollers == 1 .. MaxPollers

NoTask == [st |-> "none", watch |-> 0, cancelled |-> FALSE]

\* What resolver.Resolve may return: an error, or Live and WatchURL.
Resolutions ==
    { [err |-> TRUE, live |-> FALSE, watch |-> 0] } \cup
    { [err |-> FALSE, live |-> FALSE, watch |-> w] : w \in 0..NumWatch } \cup
    { [err |-> FALSE, live |-> TRUE, watch |-> w] : w \in 0..NumWatch }

NoResolution == [err |-> TRUE, live |-> FALSE, watch |-> 0]

DecisionIgnoresOffline(res, cw, cc) ==
    IF res.err \/ ~res.live THEN "keep"
    ELSE IF res.watch # 0
    THEN IF cw # res.watch \/ ~cc THEN "start" ELSE "keep"
    ELSE "keep"

\* The supervisor's dispatch on a resolution (main.go 553-577), given
\* currentWatch and currentCancel != nil.
Decision(res, cw, cc) ==
    IF res.err THEN "keep"
    ELSE IF ~res.live THEN "stop"
    ELSE IF res.watch # 0
    THEN IF cw # res.watch THEN "start"
         ELSE IF ~cc THEN "start"
         ELSE "keep"
    ELSE "keep"

PollerDoneNotAwaited(i) == TRUE

\* `<-currentDone` returns: the task's deferred close(done) has run.
PollerDone(i) == task[i].st = "exited"

\* The task startPoller creates next.
NextPoller == CHOOSE i \in Pollers : task[i].st = "none" /\ \A j \in Pollers : j < i => task[j].st # "none"

SupIdle ==
    /\ supPc = "off"
    /\ currentCancel = FALSE
    /\ currentDone = 0
    /\ currentWatch = 0
    /\ pending = 0
    /\ task = [i \in Pollers |-> NoTask]
    /\ supCtxDone = FALSE
    /\ supLog = [res |-> NoResolution, offline |-> FALSE]

SupInit ==
    /\ supPc = "top"
    /\ currentCancel = FALSE
    /\ currentDone = 0
    /\ currentWatch = 0
    /\ pending = 0
    /\ task = [i \in Pollers |-> NoTask]
    /\ supCtxDone = FALSE
    /\ supLog = [res |-> NoResolution, offline |-> FALSE]

\* The part of stopPoller before it blocks, run from position pc with
\* watch w to start afterwards (0: none): with no poller it returns at
\* once, and startPoller, if any, creates the task; with one it calls
\* currentCancel() and waits on currentDone.
StopThen(w, waitPc, donePc) ==
    IF currentCancel
    THEN /\ task' = [task EXCEPT ![currentDone].cancelled = TRUE]
         /\ pending' = w
         /\ supPc' = waitPc
         /\ UNCHANGED <<currentCancel, currentDone, currentWatch>>
    ELSE IF w # 0
    THEN /\ task' = [task EXCEPT ![NextPoller] =
                        [st |-> "running", watch |-> w, cancelled |-> FALSE]]
         /\ currentCancel' = TRUE
         /\ currentDone' = NextPoller
         /\ currentWatch' = w
         /\ pending' = 0
         /\ supPc' = donePc
    ELSE /\ supPc' = donePc
         /\ UNCHANGED <<task, currentCancel, currentDone, currentWatch, pending>>

\* Top of the supervisor's loop: the ctx check (return runs the deferred
\* stopPoller), then the call of resolver.Resolve.
SupTop ==
    /\ supPc = "top"
    /\ IF supCtxDone
       THEN StopThen(0, "exitWait", "returned")
       ELSE /\ supPc' = "resolving"
            /\ UNCHANGED <<task, currentCancel, currentDone, currentWatch, pending>>
    /\ UNCHANGED <<supCtxDone, supLog>>
    /\ UNCHANGED exceptSup

\* resolver.Resolve returns res and the supervisor acts on it, up to the
\* point where it blocks: on currentDone inside stopPoller, or on the retry
\* timer.
Resolved(res) ==
    /\ supPc = "resolving"
    /\ res \in Resolutions
    /\ LET d == Decision(res, currentWatch, currentCancel) IN
         /\ (d = "start") => \E i \in Pollers : task[i].st = "none"
         /\ CASE d = "stop"  -> StopThen(0, "stopWait", "sleep")
              [] d = "start" -> StopThen(res.watch, "stopWait", "sleep")
              [] OTHER       -> /\ supPc' = "sleep"
                                /\ UNCHANGED <<task, currentCancel, currentDone,
                                               currentWatch, pending>>
    /\ supLog' = [res |-> res,
                  offline |-> IF res.err THEN supLog.offline ELSE ~res.live]
    /\ UNCHANGED supCtxDone
    /\ UNCHANGED exceptSup

\* `<-currentDone` returns inside stopPoller: the three locals are
\* cleared, and startPoller, if that was the caller, creates the new task.
StopDone ==
    /\ supPc \in {"stopWait", "exitWait"}
    /\ PollerDone(currentDone)
    /\ IF pending # 0
       THEN /\ task' = [task EXCEPT ![NextPoller] =
                           [st |-> "running", watch |-> pending, cancelled |-> FALSE]]
            /\ currentCancel' = TRUE
            /\ currentDone' = NextPoller
            /\ currentWatch' = pending
       ELSE /\ currentCancel' = FALSE
            /\ currentDone' = 0
            /\ currentWatch' = 0
            /\ task' = task
    /\ pending' = 0
    /\ supPc' = IF supPc = "stopWait" THEN "sleep" ELSE "returned"
    /\ UNCHANGED <<supCtxDone, supLog>>
    /\ UNCHANGED exceptSup

\* The select on ctx.Done() and the retry timer returns.
SupSleepEnd(woke) ==
    /\ supPc = "sleep"
    /\ woke \/ supCtxDone
    /\ IF woke
       THEN /\ supPc' = "top"
            /\ UNCHANGED <<task, currentCancel, currentDone, currentWatch, pending>>
       ELSE StopThen(0, "exitWait", "returned")
    /\ UNCHANGED <<supCtxDone, supLog>>
    /\ UNCHANGED exceptSup

\* A poller's Run returns ctx.Err() after its pollCtx or the root context
\* was cancelled; the task closes done.
PollerExit(i) ==
    /\ task[i].st = "running"
    /\ task[i].cancelled \/ supCtxDone
    /\ task' = [task EXCEPT ![i].st = "exited"]
    /\ UNCHANGED <<supPc, currentCancel, currentDone, currentWatch, pending,
                   supCtxDone, supLog>>
    /\ UNCHANGED exceptSup

\* A poller's Run returns another error (the watch URL is no request
\* URI): the task cancels the root context and closes done.
PollerFails(i) ==
    /\ task[i].st = "running"
    /\ task' = [task EXCEPT ![i].st = "exited"]
    /\ supCtxDone' = TRUE
    /\ UNCHANGED <<supPc, currentCancel, currentDone, currentWatch, pending,
                   supLog>>
    /\ UNCHANGED exceptSup

\* The root context is cancelled (signal).
SupCancel ==
    /\ ~supCtxDone
    /\ supPc \notin {"returned", "off"}
    /\ supCtxDone' = TRUE
    /\ UNCHANGED <<supPc, currentCancel, currentDone, currentWatch, pending,
                   task, supLog>>
    /\ UNCHANGED exceptSup

----------------------------------------------------------------------------
(* The Twitch token refresher: RefreshManager.Refresh, called by the       *)
(* goroutine of StartAuto and by the IRC receiver's RefreshNow closure.    *)
(* A string is a sequence of units: " " is white space, "oauth:" the       *)
(* literal prefix, any other unit an ordinary character. Durations are in  *)
(* milliseconds.                                                           *)

Second == 1000
Minute == 60000
Hour == 3600000

RECURSIVE TrimLeft(_)
TrimLeft(s) == IF s # <<>> /\ Head(s) = " " THEN TrimLeft(Tail(s)) ELSE s

RECURSIVE TrimRight(_)
TrimRight(s) ==
    IF s # <<>> /\ s[Len(s)] = " " THEN TrimRight(SubSeq(s, 1, Len(s) - 1)) ELSE s

\* strings.TrimSpace
TrimSpace(s) == TrimRight(TrimLeft(s))

NormalizeTokenKeepsRaw(s) == s

\* twitch.NormalizeToken
NormalizeToken(s) ==
    LET trimmed == TrimSpace(s) IN
    IF trimmed = <<>> THEN <<>>
    ELSE IF Head(trimmed) = "oauth:" THEN trimmed
    ELSE <<"oauth:">> \o trimmed

intervalFromNoFloor(exp) ==
    IF exp <= 0 THEN Minute ELSE (exp * 85) \div 100

\* RefreshManager.intervalFrom: 85% of exp, at least one minute.
intervalFrom(exp) ==
    IF exp <= 0 THEN Minute
    ELSE LET next == (exp * 85) \div 100 IN
         IF next <= 0 THEN Minute
         ELSE IF next < Minute THEN Minute
         ELSE next

\* RefreshManager.nextInterval
nextInterval == IF lastExpires <= 0 THEN 0 ELSE intervalFrom(lastExpires)

AutoNextBackoffUncapped(b) == IF b < Minute THEN b * 2 ELSE b

\* StartAuto's backoff after a failure: doubled, at most one minute.
AutoNextBackoff(b) ==
    IF b < Minute
    THEN IF b * 2 > Minute THEN Minute ELSE b * 2
    ELSE b

Callers == {"auto", "now"}

\* access_token and expires_in values a success response may carry.
AccessTokens == { <<>>, <<" ">>, <<"a">>, <<" ", "a", " ">>, <<"oauth:", "a">> }
ExpiresIns == { -7, 0, 30, 100 }

\* message, error_description and error values of a response.
Messages == { <<>>, <<" ", "m">> }
Descs == { <<>>, <<"d">> }
Errs == { <<>>, <<" ">>, <<"e", " ">> }

\* What the token endpoint may answer: no answer (the request or the read
\* of the body fails), a body that is no JSON, or a decoded response.
Responses ==
    { [kind |-> k, status |-> 0, message |-> <<>>, desc |-> <<>>, error |-> <<>>,
       token |-> <<>>, expiresIn |-> 0] : k \in {"neterr", "garbled"} } \cup
    { [kind |-> "http", status |-> 400, message |-> m, desc |-> d, error |-> e,
       token |-> <<>>, expiresIn |-> 0] : m \in Messages, d \in Descs, e \in Errs } \cup
    { [kind |-> "http", status |-> 200, message |-> <<>>, desc |-> <<>>, error |-> <<>>,
       token |-> t, expiresIn |-> x] : t \in AccessTokens, x \in ExpiresIns }

\* The decimal rendering of a status code (fmt.Sprintf with %d).
Itoa(n) == CASE n = 400 -> "400" [] n = 200 -> "200" [] OTHER -> "0"

NoReturn == [err |-> "none", text |-> <<>>, token |-> <<>>, expires |-> 0]

Failure(kind, text) == [err |-> kind, text |-> text, token |-> <<>>, expires |-> 0]

ResponseErrorAcceptsEmpty(resp) ==
    IF resp.kind = "neterr" THEN Failure("request", <<>>)
    ELSE IF resp.kind = "garbled" THEN Failure("decode", <<>>)
    ELSE IF resp.status # 200
    THEN LET m == TrimSpace(resp.message)
             d == TrimSpace(resp.desc)
             e == TrimSpace(resp.error)
         IN  IF m # <<>> THEN Failure("provider", m)
             ELSE IF d # <<>> THEN Failure("provider", d)
             ELSE IF e # <<>> THEN Failure("provider", e)
             ELSE Failure("status", <<"unexpected status", Itoa(resp.status)>>)
    ELSE NoReturn

\* The error Refresh returns for a response, "none" if it goes on to
\* persist (Refresh, the checks between client.Do and writeTokenFile).
ResponseError(resp) ==
    IF resp.kind = "neterr" THEN Failure("request", <<>>)
    ELSE IF resp.kind = "garbled" THEN Failure("decode", <<>>)
    ELSE IF resp.status # 200
    THEN LET m == TrimSpace(resp.message)
             d == TrimSpace(resp.desc)
             e == TrimSpace(resp.error)
         IN  IF m # <<>> THEN Failure("provider", m)
             ELSE IF d # <<>> THEN Failure("provider", d)
             ELSE IF e # <<>> THEN Failure("provider", e)
             ELSE Failure("status", <<"unexpected status", Itoa(resp.status)>>)
    ELSE IF TrimSpace(resp.token) = <<>> THEN Failure("emptyToken", <<>>)
    ELSE NoReturn

\* expiresIn of Refresh: the reported seconds, one hour if not positive.
ExpiresOf(resp) == IF resp.expiresIn <= 0 THEN Hour ELSE resp.expiresIn * Second

RfIdleCall == [pc |-> "idle", token |-> <<>>, expires |-> 0]

EmptyRfLog == [notes |-> 0, noteTok |-> <<>>, scheduled |-> FALSE]

RfIdle ==
    /\ rf = [c \in Callers |-> RfIdleCall]
    /\ ret = [c \in Callers |-> NoReturn]
    /\ lastExpires = 0
    /\ tokenFile = <<>>
    /\ autoPc = "off"
    /\ timerD = 0
    /\ abackoff = 0
    /\ rfCtxDone = FALSE
    /\ rfLog = EmptyRfLog

\* The process refreshed once at startup through Refresh, which recorded
\* the lifetime, or through the refresh-token file, which did not.
RfInit ==
    /\ rf = [c \in Callers |-> RfIdleCall]
    /\ ret = [c \in Callers |-> NoReturn]
    /\ lastExpires \in {0} \cup { IF x <= 0 THEN Hour ELSE x * Second : x \in ExpiresIns }
    /\ tokenFile = <<"oauth:", "a">>
    /\ autoPc = "start"
    /\ timerD = 0
    /\ abackoff = 0
    /\ rfCtxDone = FALSE
    /\ rfLog = EmptyRfLog

\* StartAuto's goroutine begins: the first wait, the timer, the backoff.
AutoStart ==
    /\ autoPc = "start"
    /\ timerD' = IF nextInterval <= 0 THEN Minute ELSE nextInterval
    /\ abackoff' = Second
    /\ autoPc' = "timer"
    /\ UNCHANGED <<rf, ret, lastExpires, tokenFile, rfCtxDone, rfLog>>
    /\ UNCHANGED exceptRf

\* The select of StartAuto's loop takes timer.C and calls Refresh, which
\* reads its configuration and sends the request.
AutoTimerFires ==
    /\ autoPc = "timer"
    /\ autoPc' = "refreshing"
    /\ rf' = [rf EXCEPT !["auto"] = [pc |-> "exchange", token |-> <<>>, expires |-> 0]]
    /\ ret' = [ret EXCEPT !["auto"] = NoReturn]
    /\ rfLog' = EmptyRfLog
    /\ UNCHANGED <<lastExpires, tokenFile, timerD, abackoff, rfCtxDone>>
    /\ UNCHANGED exceptRf

\* The select of StartAuto's loop takes ctx.Done().
AutoCtxDone ==
    /\ autoPc = "timer"
    /\ rfCtxDone
    /\ autoPc' = "returned"
    /\ UNCHANGED <<rf, ret, lastExpires, tokenFile, timerD, abackoff, rfCtxDone, rfLog>>
    /\ UNCHANGED exceptRf

\* The IRC receiver calls RefreshNow, which calls Refresh.
NowInvoke ==
    /\ rf["now"].pc = "idle"
    /\ ~rfCtxDone
    /\ rf' = [rf EXCEPT !["now"] = [pc |-> "exchange", token |-> <<>>, expires |-> 0]]
    /\ ret' = [ret EXCEPT !["now"] = NoReturn]
    /\ UNCHANGED <<lastExpires, tokenFile, autoPc, timerD, abackoff, rfCtxDone, rfLog>>
    /\ UNCHANGED exceptRf

\* What StartAuto's loop does with the result of its Refresh, up to the
\* next select (StartAuto, lines 214-233).
AutoHandles(r) ==
    IF r.err # "none"
    THEN IF rfCtxDone
         THEN /\ autoPc' = "returned"
              /\ UNCHANGED <<timerD, abackoff, rfLog>>
         ELSE /\ timerD' = abackoff
              /\ abackoff' = AutoNextBackoff(abackoff)
              /\ autoPc' = "timer"
              /\ rfLog' = [rfLog EXCEPT !.scheduled = TRUE]
    ELSE /\ abackoff' = Second
         /\ rfLog' = [notes |-> rfLog.notes + 1,
                      noteTok |-> NormalizeToken(r.token),
                      scheduled |-> TRUE]
         /\ timerD' = intervalFrom(r.expires)
         /\ autoPc' = "timer"

\* Refresh returns r to caller c.
Returns(c, r) ==
    /\ ret' = [ret EXCEPT ![c] = r]
    /\ IF c = "auto"
       THEN AutoHandles(r)
       ELSE UNCHANGED <<autoPc, timerD, abackoff, rfLog>>

\* client.Do and the decoding of the body end for caller c: Refresh
\* returns an error, or holds the token and lifetime to persist.
RefreshResponse(c, resp) ==
    /\ rf[c].pc = "exchange"
    /\ resp \in Responses
    /\ LET r == ResponseError(resp) IN
       IF r.err # "none"
       THEN /\ rf' = [rf EXCEPT ![c] = RfIdleCall]
            /\ Returns(c, r)
       ELSE /\ rf' = [rf EXCEPT ![c] = [pc |-> "persist",
                                        token |-> TrimSpace(resp.token),
                                        expires |-> ExpiresOf(resp)]]
            /\ UNCHANGED <<ret, autoPc, timerD, abackoff, rfLog>>
    /\ UNCHANGED <<lastExpires, tokenFile, rfCtxDone>>
    /\ UNCHANGED exceptRf

\* writeTokenFile for caller c: on success the normalized token is the
\* file's content, lastExpires is recorded and Refresh returns the token;
\* on failure the file is untouched (open failed) or truncated (a later
\* step failed) and Refresh returns the error.
RefreshPersist(c, ok, truncated) ==
    /\ rf[c].pc = "persist"
    /\ ok => ~truncated
    /\ rf' = [rf EXCEPT ![c] = RfIdleCall]
    /\ IF ok
       THEN /\ tokenFile' = NormalizeToken(rf[c].token)
            /\ lastExpires' = rf[c].expires
            /\ Returns(c, [err |-> "none", text |-> <<>>,
                           token |-> rf[c].token, expires |-> rf[c].expires])
       ELSE /\ tokenFile' = IF truncated THEN <<>> ELSE tokenFile
            /\ lastExpires' = lastExpires
            /\ Returns(c, Failure("write", <<>>))
    /\ UNCHANGED rfCtxDone
    /\ UNCHANGED exceptRf

\* The context is cancelled.
RfCancel ==
    /\ ~rfCtxDone
    /\ autoPc \notin {"off"}
    /\ rfCtxDone' = TRUE
    /\ UNCHANGED <<rf, ret, lastExpires, tokenFile, autoPc, timerD, abackoff, rfLog>>
    /\ UNCHANGED exceptRf

----------------------------------------------------------------------------
(* The message pipeline: a receiver hands each message to the handler      *)
(* closure of main, which calls writer.Write. The writer is WithBroadcast   *)
(* over the SQLite sink (the sink alone without the HTTP API), wrapped in a *)
(* BufferedWriter when a batch size above 1 or a flush interval is set.     *)

PMsgs == 1 .. MaxMsgs

\* The writers main can assemble around an opened SQLite sink.
PipeConfigs ==
    { c \in [buffered : BOOLEAN, batchSize : 1 .. MaxBatch, flush : BOOLEAN,
             api : BOOLEAN, metrics : BOOLEAN] :
        /\ c.buffered <=> (c.batchSize > 1 \/ c.flush)
        /\ c.metrics => c.api }

\* BufferedWriter.writeAll over batch when the first n sink writes succeed:
\* base.Write for each entry in order, stopping at the first error.
\* WithBroadcast.Write stores the message and, only if that succeeded,
\* broadcasts it.
writeAll(batch, n) ==
    LET done == { batch[i] : i \in 1 .. n }
        tried == { batch[i] : i \in 1 .. (IF n < Len(batch) THEN n + 1 ELSE n) }
    IN  [ stored |-> stored \cup done,
          bcast  |-> IF pcfg.api THEN bcast \cup done ELSE bcast,
          tries  |-> [k \in PMsgs |-> IF k \in tried THEN tries[k] + 1 ELSE tries[k]],
          log    |-> sinkLog \o SubSeq(batch, 1, IF n < Len(batch) THEN n + 1 ELSE n),
          err    |-> n < Len(batch) ]

HandlerHaltsOnError(err) ==
    [log |-> err, count |-> err /\ pcfg.api /\ pcfg.metrics, halt |-> err]

\* What the handler closure does with the error of writer.Write: log it,
\* report it to the API's metrics if there are any, and return.
Handler(err) ==
    [log |-> err, count |-> err /\ pcfg.api /\ pcfg.metrics, halt |-> FALSE]

EmptyPipeLog == [logged |-> 0, counted |-> 0, last |-> "none"]

PipeIdle ==
    /\ pcfg = [buffered |-> FALSE, batchSize |-> 1, flush |-> FALSE,
               api |-> FALSE, metrics |-> FALSE]
    /\ handed = 0
    /\ buffer = <<>>
    /\ ptimer = FALSE
    /\ lastErr = FALSE
    /\ stored = {}
    /\ bcast = {}
    /\ tries = [k \in PMsgs |-> 0]
    /\ pipeStopped = TRUE
    /\ inflight = <<>>
    /\ pclosed = FALSE
    /\ sinkLog = <<>>
    /\ pipeLog = EmptyPipeLog

PipeInit ==
    /\ pcfg \in PipeConfigs
    /\ handed = 0
    /\ buffer = <<>>
    /\ ptimer = FALSE
    /\ lastErr = FALSE
    /\ stored = {}
    /\ bcast = {}
    /\ tries = [k \in PMsgs |-> 0]
    /\ pipeStopped = FALSE
    /\ inflight = <<>>
    /\ pclosed = FALSE
    /\ sinkLog = <<>>
    /\ pipeLog = EmptyPipeLog

\* The handler's part after writer.Write returned err.
AfterWrite(err) ==
    LET h == Handler(err) IN
    /\ pipeLog' = [logged  |-> pipeLog.logged + (IF h.log THEN 1 ELSE 0),
                   counted |-> pipeLog.counted + (IF h.count THEN 1 ELSE 0),
                   last    |-> IF err THEN "failed" ELSE "ok"]
    /\ pipeStopped' = (pipeStopped \/ h.halt)

\* The receiver hands its next message to the handler, which calls
\* writer.Write; n sink writes of the batch written now succeed.
Deliver(n) ==
    /\ ~pipeStopped
    /\ handed < MaxMsgs
    /\ n \in 0 .. MaxBatch
    /\ handed' = handed + 1
    /\ LET m == handed + 1 IN
       IF ~pcfg.buffered
       THEN /\ n <= 1
            /\ LET w == writeAll(<<m>>, n) IN
               /\ stored' = w.stored
               /\ bcast' = w.bcast
               /\ tries' = w.tries
               /\ sinkLog' = w.log
               /\ AfterWrite(w.err)
            /\ UNCHANGED <<buffer, ptimer, lastErr>>
       ELSE LET buf == Append(buffer, m) IN
            /\ lastErr' = FALSE
            /\ IF Len(buf) < pcfg.batchSize
               THEN /\ n = 0
                    /\ buffer' = buf
                    /\ ptimer' = IF Len(buf) = 1 /\ pcfg.flush THEN TRUE ELSE ptimer
                    /\ AfterWrite(lastErr)
                    /\ UNCHANGED <<stored, bcast, tries, sinkLog>>
               ELSE /\ n <= Len(buf)
                    /\ buffer' = <<>>
                    /\ ptimer' = FALSE
                    /\ LET w == writeAll(buf, n) IN
                       /\ stored' = w.stored
                       /\ bcast' = w.bcast
                       /\ tries' = w.tries
                       /\ sinkLog' = w.log
                       /\ AfterWrite(w.err \/ lastErr)
    /\ UNCHANGED <<pcfg, inflight, pclosed>>
    /\ UNCHANGED exceptPipe

\* BufferedWriter.onTimer up to its Unlock: the flush interval elapsed; the
\* buffered messages are taken and the buffer and the timer are reset. One
\* timer flush is in progress at a time.
OnTimer ==
    /\ ptimer
    /\ ~pclosed
    /\ inflight = <<>>
    /\ buffer # <<>>
    /\ ptimer' = FALSE
    /\ buffer' = <<>>
    /\ inflight' = buffer
    /\ UNCHANGED <<pcfg, handed, lastErr, pipeStopped, pclosed, pipeLog>>
    /\ UNCHANGED <<stored, bcast, tries, sinkLog>>
    /\ UNCHANGED exceptPipe

\* onTimer after its Unlock: writeAll of the batch it took, the first n
\* sink writes succeeding; an error is kept for the next Write.
OnTimerWrite(n) ==
    /\ inflight # <<>>
    /\ n \in 0 .. Len(inflight)
    /\ inflight' = <<>>
    /\ LET w == writeAll(inflight, n) IN
       /\ stored' = w.stored
       /\ bcast' = w.bcast
       /\ tries' = w.tries
       /\ sinkLog' = w.log
       /\ lastErr' = IF w.err THEN TRUE ELSE lastErr
    /\ UNCHANGED <<pcfg, handed, buffer, ptimer, pipeStopped, pclosed, pipeLog>>
    /\ UNCHANGED exceptPipe

\* main returns after the signal and its deferred buffered.Close() runs to
\* its return: closed is set, the timer stopped, the buffer taken and
\* written, the first n sink writes succeeding.
Close(n) ==
    /\ pcfg.buffered
    /\ pipeStopped
    /\ ~pclosed
    /\ n \in 0 .. Len(buffer)
    /\ pclosed' = TRUE
    /\ ptimer' = FALSE
    /\ buffer' = <<>>
    /\ lastErr' = FALSE
    /\ LET w == writeAll(buffer, n) IN
       /\ stored' = w.stored
       /\ bcast' = w.bcast
       /\ tries' = w.tries
       /\ sinkLog' = w.log
    /\ UNCHANGED <<pcfg, handed, pipeStopped, inflight, pipeLog>>
    /\ UNCHANGED exceptPipe

\* The receiver's context is cancelled (signal).
PipeStop ==
    /\ ~pipeStopped
    /\ pipeStopped' = TRUE
    /\ UNCHANGED <<pcfg, handed, buffer, ptimer, lastErr, stored, bcast, tries, pipeLog>>
    /\ UNCHANGED <<inflight, pclosed, sinkLog>>
    /\ UNCHANGED exceptPipe

----------------------------------------------------------------------------
(* Message building: parsePrivmsg and parseTwitchBadges of the IRC         *)
(* receiver and buildMessage of the polling receiver, as functions of the  *)
(* unit and of the wall clock. An id is a sequence of strings.             *)

\* The configured channel.
Channel == "chan"

\* Case folding (strings.EqualFold, strings.ToUpper) on the names used.
Fold(c) == CASE c = "CHAN" -> "chan" [] c = "PRIVMSG" -> "privmsg" [] OTHER -> c

\* The lines given to parsePrivmsg, by what it looks at: a tag block and
\* the space that ends it, the tags id, display-name and tmi-sent-ts (0:
\* missing or no integer), the ":" before the prefix, the prefix (units up
\* to "!" are the nick), the command, the channel, and the ":" and text.
PrivLines ==
    { l \in [tagged : BOOLEAN, tagsEnd : BOOLEAN, id : {"", "t1"},
             display : {"", "D"}, sentTs : {0} \cup Clock, colon : BOOLEAN,
             prefix : { <<"u", "!", "h">>, <<"h">> },
             cmd : {"PRIVMSG", "privmsg", "NOTICE"},
             chan : {"chan", "CHAN", "other"},
             textColon : BOOLEAN, text : {"", "a"}] :
        /\ (~l.tagged) => (l.tagsEnd /\ l.id = "" /\ l.display = "" /\ l.sentTs = 0)
        /\ (l.text = "a") => l.textColon
        /\ (l.cmd = "NOTICE" \/ l.chan = "other" \/ ~l.colon \/ ~l.tagsEnd) =>
              (l.id = "" /\ l.display = "" /\ l.sentTs = 0 /\ l.text = "" /\ l.textColon) }

\* extractUser: the prefix up to its first "!".
RECURSIVE extractUser(_)
extractUser(prefix) ==
    IF prefix = <<>> \/ Head(prefix) = "!" THEN <<>>
    ELSE <<Head(prefix)>> \o extractUser(Tail(prefix))

parsePrivmsgKeepsEmptyId(line, channel, now) ==
    IF \/ line.tagged /\ ~line.tagsEnd
       \/ ~line.colon
       \/ Fold(line.cmd) # "privmsg"
       \/ Fold(line.chan) # Fold(channel)
       \/ ~line.textColon
    THEN [ok |-> FALSE, msg |-> NoMessage]
    ELSE LET user == IF line.display # "" THEN <<line.display>>
                     ELSE extractUser(line.prefix)
             ts == IF line.sentTs # 0 THEN line.sentTs ELSE now
         IN  [ok |-> TRUE,
              msg |-> [id |-> IF line.id = "" THEN <<>> ELSE <<line.id>>,
                       platform |-> "Twitch",
                       username |-> user,
                       text |-> line.text,
                       ts |-> ts]]

\* parsePrivmsg: ok only for a chat post of the channel; the id is the id
\* tag or "<user>-<ts.UnixNano()>".
parsePrivmsg(line, channel, now) ==
    IF \/ line.tagged /\ ~line.tagsEnd
       \/ ~line.colon
       \/ Fold(line.cmd) # "privmsg"
       \/ Fold(line.chan) # Fold(channel)
       \/ ~line.textColon
    THEN [ok |-> FALSE, msg |-> NoMessage]
    ELSE LET user == IF line.display # "" THEN <<line.display>>
                     ELSE extractUser(line.prefix)
             ts == IF line.sentTs # 0 THEN line.sentTs ELSE now
         IN  [ok |-> TRUE,
              msg |-> [id |-> IF line.id = "" THEN user \o <<"-", ToString(ts)>>
                              ELSE <<line.id>>,
                       platform |-> "Twitch",
                       username |-> user,
                       text |-> line.text,
                       ts |-> ts]]

\* The entries of a badges or badge-info tag, by what the parsers look at:
\* the text before the "/", whether there is a "/", the text after it.
BadgeEntries ==
    { [id |-> "moderator",   slash |-> TRUE,  version |-> "1"],
      [id |-> "subscriber",  slash |-> TRUE,  version |-> "6"],
      [id |-> "subscriber",  slash |-> TRUE,  version |-> "24"],
      [id |-> "subscriber",  slash |-> TRUE,  version |-> ""],
      [id |-> "partner",     slash |-> TRUE,  version |-> "1"],
      [id |-> "broadcaster", slash |-> TRUE,  version |-> ""],
      [id |-> "broadcaster", slash |-> FALSE, version |-> ""],
      [id |-> "",            slash |-> TRUE,  version |-> "1"] }

SeqsUpTo(S, n) == UNION { [1 .. k -> S] : k \in 0 .. n }

\* parseBadgePairs: id and version of each entry that has an id.
RECURSIVE parseBadgePairs(_)
parseBadgePairs(raw) ==
    IF raw = <<>> THEN <<>>
    ELSE IF Head(raw).id = "" THEN parseBadgePairs(Tail(raw))
    ELSE <<[id |-> Head(raw).id, version |-> Head(raw).version]>>
         \o parseBadgePairs(Tail(raw))

\* parseBadgeInfo: the version per id, from the entries that have a "/"
\* and an id; a later entry replaces an earlier one. "none": no entry.
RECURSIVE parseBadgeInfo(_, _)
parseBadgeInfo(raw, id) ==
    IF raw = <<>> THEN "none"
    ELSE LET e == raw[Len(raw)] IN
         IF e.slash /\ e.id # "" /\ e.id = id THEN e.version
         ELSE parseBadgeInfo(SubSeq(raw, 1, Len(raw) - 1), id)

parseTwitchBadgesListFirst(badges, info, channel) ==
    LET list == parseBadgePairs(badges) IN
    [i \in 1 .. Len(list) |->
        LET v == IF list[i].version # "" THEN list[i].version
                 ELSE IF parseBadgeInfo(info, list[i].id) \notin {"none", ""}
                 THEN parseBadgeInfo(info, list[i].id)
                 ELSE ""
        IN  [id |-> list[i].id,
             version |-> IF v = "" /\ list[i].id = "broadcaster" THEN channel ELSE v]]

\* parseTwitchBadges: per pair of the badges tag, the badge-info version
\* if there is a non-empty one, else the pair's; the channel for a
\* broadcaster badge still without version.
parseTwitchBadges(badges, info, channel) ==
    LET list == parseBadgePairs(badges) IN
    [i \in 1 .. Len(list) |->
        LET inf == parseBadgeInfo(info, list[i].id)
            v == IF inf \notin {"none", ""} THEN inf ELSE list[i].version
        IN  [id |-> list[i].id,
             version |-> IF v = "" /\ list[i].id = "broadcaster" THEN channel ELSE v]]

NoUnit == [src |-> "none", synth |-> FALSE, ok |-> FALSE, msg |-> NoMessage]

NoBadges == [badges |-> <<>>, info |-> <<>>, out |-> <<>>, done |-> FALSE]

MsgIdle ==
    /\ m1 = NoUnit
    /\ m2 = NoUnit
    /\ bg = NoBadges

\* The message model either resolves the badge tags drawn at the start or
\* builds messages.
MsgInit ==
    /\ m1 = NoUnit
    /\ m2 = NoUnit
    /\ \E badges \in SeqsUpTo(BadgeEntries, MaxBadges),
          info \in SeqsUpTo(BadgeEntries, MaxInfo) :
            bg = [badges |-> badges, info |-> info, out |-> <<>>, done |-> FALSE]

\* The IRC receiver parses a line at instant now.
ParseLine(line, now) ==
    /\ bg = NoBadges
    /\ line \in PrivLines
    /\ now \in Clock
    /\ LET r == parsePrivmsg(line, Channel, now) IN
       m1' = [src |-> "twitch", synth |-> line.id = "", ok |-> r.ok, msg |-> r.msg]
    /\ m2' = m1
    /\ UNCHANGED bg
    /\ UNCHANGED exceptMsg

\* The polling receiver builds the message of a text renderer at instant now.
BuildItem(r, now) ==
    /\ bg = NoBadges
    /\ r \in Renderers
    /\ r.chat
    /\ r.author = "u"
    /\ now \in Clock
    /\ LET b == buildMessage(r, now) IN
       m1' = [src |-> "youtube", synth |-> r.id = "", ok |-> b.ok, msg |-> b.msg]
    /\ m2' = m1
    /\ UNCHANGED bg
    /\ UNCHANGED exceptMsg

\* parsePrivmsg resolves the badges of a chat post.
ParseBadges ==
    /\ ~bg.done
    /\ m1 = NoUnit
    /\ bg' = [bg EXCEPT !.out = parseTwitchBadges(bg.badges, bg.info, Channel),
                        !.done = TRUE]
    /\ UNCHANGED <<m1, m2>>
    /\ UNCHANGED exceptMsg

----------------------------------------------------------------------------
(* The credential hot-swap controller: runTwitchWithReload with the tasks  *)
(* that push credential updates to it. A credential is a number; 1 is the  *)
(* credential the process starts with, and every rotation of the token     *)
(* file and every refresh exchange issues the next number.                 *)

\* Capacity of the update channel (make(chan tokenUpdate, 4)), scaled down.
UpdCap == 2
\* Number of credentials ever issued after the first.
MaxTokens == 1
\* Number of sendTokenUpdate calls.
MaxPushes == 3
\* Number of file checks that find the file empty.
MaxEmptyReads == 1

\* The tasks that call sendTokenUpdate: ReloadTwitch (serialized by
\* Harvester.mu), the StartAuto observer, the IRC client's RefreshNow.
Pushers == {"manual", "auto", "client"}

Idle == [pc |-> "idle", tok |-> 0]

NewTask(cancelled) == [alive |-> TRUE, cancelled |-> cancelled, tok |-> 0]

\* pushes: sendTokenUpdate calls begun (with the refresh that precedes
\* them); chanReconnects: teardown-and-restarts done for updates taken from
\* the channel; burst: every call so far completed before the controller
\* took its first update from the channel.
\* tickSame: the file check in progress found a change although the
\* receiver was running on the credential of the file; empties: checks
\* that found the file empty.
EmptyRelLog == [pushes |-> 0, chanReconnects |-> 0, burst |-> TRUE,
                tickSame |-> FALSE, empties |-> 0]

RelIdle ==
    /\ file = 1
    /\ stateTok = 1
    /\ cached = 1
    /\ updates = <<>>
    /\ ctl = [pc |-> "init", tok |-> 0]
    /\ cur = [alive |-> FALSE, cancelled |-> FALSE, tok |-> 0]
    /\ orphans = 0
    /\ pusher = [p \in Pushers |-> Idle]
    /\ rootDone = FALSE
    /\ relLog = EmptyRelLog

\* main: loader.SetCached(token); state := newTokenState(token).
RelInit == RelIdle

\* The controller has taken an update from the channel.
Received ==
    relLog.chanReconnects > 0 \/ ctl.pc \in {"applyChan", "cancelChan", "waitChan"}

\* runTwitchWithReload's startClient: a new task running Client.Run under a
\* context derived from the root context.
startClient(old) == NewTask(rootDone)

DoneNotAwaited == TRUE

\* `<-*doneCurrent` / `<-doneCurrent`: the current client's task has exited.
DoneClosed == ~cur.alive

\* runTwitchWithReload up to its select: the first client is started.
CtlStart ==
    /\ ctl.pc = "init"
    /\ cur' = startClient(cur)
    /\ ctl' = [ctl EXCEPT !.pc = "select"]
    /\ UNCHANGED <<file, stateTok, cached, updates, orphans, pusher, rootDone,
                   relLog>>
    /\ UNCHANGED exceptRel

\* The receiver is running on credential t: its session was opened with it
\* and TokenProvider() returns it.
InUse(t) == cur.alive /\ ~cur.cancelled /\ cur.tok = t /\ stateTok = t

\* FileTokenLoader.Load as the ticker case uses it: the token and whether
\* it differs from the cached one.
LoadChanged == file # cached

\* The ticker case: loader.Load(); an unchanged token is skipped, a changed
\* one is cached and handed to applyTokenUpdate.
CtlTick ==
    /\ ctl.pc = "select"
    /\ IF LoadChanged
       THEN /\ cached' = file
            /\ ctl' = [pc |-> "applySet", tok |-> file]
            /\ relLog' = [relLog EXCEPT !.tickSame = InUse(file)]
       ELSE UNCHANGED <<cached, ctl, relLog>>
    /\ UNCHANGED <<file, stateTok, updates, cur, orphans, pusher, rootDone>>
    /\ UNCHANGED exceptRel

\* The ticker case when the read finds the token file empty (it is being
\* rewritten in place: truncated, its content not yet written): Load sets
\* the cached value to "" and returns ErrEmptyToken, and the case continues.
CtlTickEmpty ==
    /\ ctl.pc = "select"
    /\ relLog.empties < MaxEmptyReads
    /\ cached' = 0
    /\ relLog' = [relLog EXCEPT !.empties = @ + 1]
    /\ UNCHANGED <<file, stateTok, updates, ctl, cur, orphans, pusher, rootDone>>
    /\ UNCHANGED exceptRel

\* The `upd := <-updates` case.
CtlRecv ==
    /\ ctl.pc = "select"
    /\ updates # <<>>
    /\ ctl' = [pc |-> "applyChan", tok |-> Head(updates)]
    /\ updates' = Tail(updates)
    /\ relLog' = [relLog EXCEPT
                    !.burst = @ /\ \A p \in Pushers : pusher[p].pc = "idle"]
    /\ UNCHANGED <<file, stateTok, cached, cur, orphans, pusher, rootDone>>
    /\ UNCHANGED exceptRel

\* applyTokenUpdate: state.Set(token).
CtlApplySet ==
    /\ ctl.pc \in {"applySet", "applyChan"}
    /\ stateTok' = ctl.tok
    /\ ctl' = [ctl EXCEPT !.pc = IF @ = "applyChan" THEN "cancelChan" ELSE "cancelFile"]
    /\ UNCHANGED <<file, cached, updates, cur, orphans, pusher, rootDone, relLog>>
    /\ UNCHANGED exceptRel

\* applyTokenUpdate: loader.SetCached(token); every sender sets Force, so
\* the early return is never taken; (*cancelCurrent)().
CtlApplyCancel ==
    /\ ctl.pc \in {"cancelFile", "cancelChan"}
    /\ cached' = ctl.tok
    /\ cur' = [cur EXCEPT !.cancelled = TRUE]
    /\ ctl' = [ctl EXCEPT !.pc = IF @ = "cancelChan" THEN "waitChan" ELSE "waitFile"]
    /\ UNCHANGED <<file, stateTok, updates, orphans, pusher, rootDone, relLog>>
    /\ UNCHANGED exceptRel

\* applyTokenUpdate: <-*doneCurrent, then start(*cfg).
CtlRestart ==
    /\ ctl.pc \in {"waitFile", "waitChan"}
    /\ DoneClosed
    /\ orphans' = orphans + (IF cur.alive THEN 1 ELSE 0)
    /\ cur' = startClient(cur)
    /\ relLog' = [relLog EXCEPT
                    !.chanReconnects = IF ctl.pc = "waitChan" THEN @ + 1 ELSE @,
                    !.tickSame = FALSE]
    /\ ctl' = [pc |-> "select", tok |-> 0]
    /\ UNCHANGED <<file, stateTok, cached, updates, pusher, rootDone>>
    /\ UNCHANGED exceptRel

\* The ctx.Done case: cancelCurrent(); <-doneCurrent; return.
CtlShutdown ==
    /\ ctl.pc = "select"
    /\ rootDone
    /\ cur' = [cur EXCEPT !.cancelled = TRUE]
    /\ ctl' = [ctl EXCEPT !.pc = "stopping"]
    /\ UNCHANGED <<file, stateTok, cached, updates, orphans, pusher, rootDone,
                   relLog>>
    /\ UNCHANGED exceptRel

CtlReturn ==
    /\ ctl.pc = "stopping"
    /\ DoneClosed
    /\ ctl' = [ctl EXCEPT !.pc = "returned"]
    /\ UNCHANGED <<file, stateTok, cached, updates, cur, orphans, pusher,
                   rootDone, relLog>>
    /\ UNCHANGED exceptRel

\* Client.runOnce opens a connection with TokenProvider() = state.Current().
ClientConnect ==
    /\ cur.alive
    /\ ~cur.cancelled
    /\ cur.tok # stateTok
    /\ cur' = [cur EXCEPT !.tok = stateTok]
    /\ UNCHANGED <<file, stateTok, cached, updates, ctl, orphans, pusher,
                   rootDone, relLog>>
    /\ UNCHANGED exceptRel

\* Client.Run returns because its context is cancelled; the task closes
\* done. It cannot return from inside RefreshNow.
ClientExit ==
    /\ cur.alive
    /\ cur.cancelled
    /\ pusher["client"].pc = "idle"
    /\ cur' = [cur EXCEPT !.alive = FALSE]
    /\ UNCHANGED <<file, stateTok, cached, updates, ctl, orphans, pusher,
                   rootDone, relLog>>
    /\ UNCHANGED exceptRel

\* Client.Run returns nil after a dial timeout (see SessionEnd); the task
\* closes done and nothing restarts it.
ClientDies ==
    /\ cur.alive
    /\ cur.tok # 0
    /\ pusher["client"].pc = "idle"
    /\ cur' = [cur EXCEPT !.alive = FALSE]
    /\ UNCHANGED <<file, stateTok, cached, updates, ctl, orphans, pusher,
                   rootDone, relLog>>
    /\ UNCHANGED exceptRel

\* The token file is rotated in place by an operator.
ExternalWrite ==
    /\ file <= MaxTokens
    /\ file' = file + 1
    /\ UNCHANGED <<stateTok, cached, updates, ctl, cur, orphans, pusher,
                   rootDone, relLog>>
    /\ UNCHANGED exceptRel

\* RefreshManager.Refresh succeeds in the auto-refresh loop or in the
\* client's RefreshNow: a new credential, written to the token file.
RefreshExchange(p) ==
    /\ p \in {"auto", "client"}
    /\ pusher[p].pc = "idle"
    /\ file <= MaxTokens
    /\ relLog.pushes < MaxPushes
    /\ IF p = "client"
       THEN cur.alive /\ ~cur.cancelled /\ cur.tok # 0
       ELSE ~rootDone
    /\ file' = file + 1
    /\ pusher' = [pusher EXCEPT ![p] = [pc |-> "set", tok |-> file + 1]]
    /\ relLog' = [relLog EXCEPT !.pushes = @ + 1, !.burst = @ /\ ~Received]
    /\ UNCHANGED <<stateTok, cached, updates, ctl, cur, orphans, rootDone>>
    /\ UNCHANGED exceptRel

\* The refresh callbacks of main: state.Set(normalized).
CallbackSet(p) ==
    /\ pusher[p].pc = "set"
    /\ stateTok' = pusher[p].tok
    /\ pusher' = [pusher EXCEPT ![p].pc = "cache"]
    /\ UNCHANGED <<file, cached, updates, ctl, cur, orphans, rootDone, relLog>>
    /\ UNCHANGED exceptRel

\* The refresh callbacks of main: loader.SetCached(normalized).
CallbackCache(p) ==
    /\ pusher[p].pc = "cache"
    /\ cached' = pusher[p].tok
    /\ pusher' = [pusher EXCEPT ![p].pc = "try1"]
    /\ UNCHANGED <<file, stateTok, updates, ctl, cur, orphans, rootDone, relLog>>
    /\ UNCHANGED exceptRel

\* Harvester.ReloadTwitch: the access token is read from the token file and
\* handed to twitchReloader.Reconnect.
ManualReload ==
    /\ pusher["manual"].pc = "idle"
    /\ relLog.pushes < MaxPushes
    /\ pusher' = [pusher EXCEPT !["manual"] = [pc |-> "try1", tok |-> file]]
    /\ relLog' = [relLog EXCEPT !.pushes = @ + 1, !.burst = @ /\ ~Received]
    /\ UNCHANGED <<file, stateTok, cached, updates, ctl, cur, orphans, rootDone>>
    /\ UNCHANGED exceptRel

\* sendTokenUpdate, first select: `case ch <- upd: return`.
SendTry1(p) ==
    /\ pusher[p].pc = "try1"
    /\ IF Len(updates) < UpdCap
       THEN /\ updates' = Append(updates, pusher[p].tok)
            /\ pusher' = [pusher EXCEPT ![p] = Idle]
       ELSE /\ pusher' = [pusher EXCEPT ![p].pc = "drain"]
            /\ UNCHANGED updates
    /\ UNCHANGED <<file, stateTok, cached, ctl, cur, orphans, rootDone, relLog>>
    /\ UNCHANGED exceptRel

DrainedAll(q) == <<>>

\* `select { case <-ch: default: }`: one receive, if anything is queued.
Drained(q) == IF q # <<>> THEN Tail(q) ELSE q

\* sendTokenUpdate, second select: `case <-ch:` drops the oldest update.
SendDrain(p) ==
    /\ pusher[p].pc = "drain"
    /\ updates' = Drained(updates)
    /\ pusher' = [pusher EXCEPT ![p].pc = "try2"]
    /\ UNCHANGED <<file, stateTok, cached, ctl, cur, orphans, rootDone, relLog>>
    /\ UNCHANGED exceptRel

\* sendTokenUpdate, third select: the update is sent, or dropped if the
\* channel is full again.
SendTry2(p) ==
    /\ pusher[p].pc = "try2"
    /\ updates' = IF Len(updates) < UpdCap
                  THEN Append(updates, pusher[p].tok)
                  ELSE updates
    /\ pusher' = [pusher EXCEPT ![p] = Idle]
    /\ UNCHANGED <<file, stateTok, cached, ctl, cur, orphans, rootDone, relLog>>
    /\ UNCHANGED exceptRel

\* The root context is cancelled (a signal, or a receiver's fatal error);
\* the client's context derives from it.
RootCancel ==
    /\ ~rootDone
    /\ rootDone' = TRUE
    /\ cur' = [cur EXCEPT !.cancelled = TRUE]
    /\ UNCHANGED <<file, stateTok, cached, updates, ctl, orphans, pusher, relLog>>
    /\ UNCHANGED exceptRel

\* Broadcast's next step: an iteration of its loop, or its return.
BroadcastProgress == BroadcastEnd \/ \E c \in Subs : BroadcastStep(c)

----------------------------------------------------------------------------
(* Specifications. *)

HubNext ==
    \/ \E c \in Subs, f \in Filters : addClient(c, f)
    \/ \E c \in Subs, ok \in BOOLEAN : Relay(c, ok)
    \/ \E c \in Subs : ObserveClosed(c)
    \/ \E c \in Subs : PeerGone(c)
    \/ \E c \in Subs, ok \in BOOLEAN : Heartbeat(c, ok)
    \/ \E c \in Subs : Disconnect(c)
    \/ \E c \in Subs : removeClient(c)
    \/ Shutdown
    \/ \E m \in Msgs : BroadcastBegin(m)
    \/ \E c \in Subs : BroadcastStep(c)
    \/ BroadcastEnd

InitHub == HubInit /\ IrcIdle /\ RelIdle /\ YtIdle /\ SupIdle /\ RfIdle /\ PipeIdle /\ MsgIdle

SpecHub == InitHub /\ [][HubNext]_vars

\* The steps of the hub's own code: a handler's select takes a ready case
\* (Go chooses at random among the ready ones), its deferred removeClient
\* gets the mutex, a Broadcast call holding the mutex runs on. The
\* scheduler does not stop while one of them can run.
HubSysNext ==
    \/ \E c \in Subs, ok \in BOOLEAN : Relay(c, ok)
    \/ \E c \in Subs : ObserveClosed(c)
    \/ \E c \in Subs : Disconnect(c)
    \/ \E c \in Subs : removeClient(c)
    \/ BroadcastProgress

SpecHubFair == SpecHub /\ WF_vars(HubSysNext)

YtNext ==
    \/ YtRunStart
    \/ YtLoopTop
    \/ \E k \in 1..NumKeys, c \in 1..NumConts : BootstrapOk(k, k, c)
    \/ BootstrapFail
    \/ \E woke \in BOOLEAN : BootSleepEnd(woke)
    \/ \E payload \in Payloads, next \in 0..NumConts, w \in Waits :
           PollOk(payload, next, w)
    \/ PollFail
    \/ \E woke \in BOOLEAN : FailSleepEnd(woke)
    \/ \E woke \in BOOLEAN : PollSleepEnd(woke)
    \/ YtCancel

InitYT == HubInit /\ IrcIdle /\ RelIdle /\ YtInit /\ SupIdle /\ RfIdle /\ PipeIdle /\ MsgIdle

SpecYT == InitYT /\ [][YtNext]_vars

SupNext ==
    \/ SupTop
    \/ \E res \in Resolutions : Resolved(res)
    \/ StopDone
    \/ \E woke \in BOOLEAN : SupSleepEnd(woke)
    \/ \E i \in Pollers : PollerExit(i)
    \/ \E i \in Pollers : PollerFails(i)
    \/ SupCancel

InitSup == HubInit /\ IrcIdle /\ RelIdle /\ YtIdle /\ SupInit /\ RfIdle /\ PipeIdle /\ MsgIdle

SpecSup == InitSup /\ [][SupNext]_vars

MsgNext ==
    \/ \E line \in PrivLines, now \in Clock : ParseLine(line, now)
    \/ \E r \in Renderers, now \in Clock : BuildItem(r, now)
    \/ ParseBadges

InitMsg == HubInit /\ IrcIdle /\ RelIdle /\ YtIdle /\ SupIdle /\ RfIdle /\ PipeIdle /\ MsgInit

SpecMsg == InitMsg /\ [][MsgNext]_vars

PipeNext ==
    \/ \E n \in 0 .. MaxBatch : Deliver(n)
    \/ OnTimer
    \/ \E n \in 0 .. MaxBatch : OnTimerWrite(n)
    \/ \E n \in 0 .. MaxBatch : Close(n)
    \/ PipeStop

InitPipe == HubInit /\ IrcIdle /\ RelIdle /\ YtIdle /\ SupIdle /\ RfIdle /\ PipeInit /\ MsgIdle

SpecPipe == InitPipe /\ [][PipeNext]_vars

RfNext ==
    \/ AutoStart
    \/ AutoTimerFires
    \/ AutoCtxDone
    \/ NowInvoke
    \/ \E c \in Callers, resp \in Responses : RefreshResponse(c, resp)
    \/ \E c \in Callers, ok \in BOOLEAN, truncated \in BOOLEAN : RefreshPersist(c, ok, truncated)
    \/ RfCancel

InitRf == HubInit /\ IrcIdle /\ RelIdle /\ YtIdle /\ SupIdle /\ RfInit /\ PipeIdle /\ MsgIdle

SpecRf == InitRf /\ [][RfNext]_vars

\* The steps of StartAuto's goroutine: the runtime fires its timer or
\* delivers ctx.Done(), the HTTP client returns within the request's
\* 15 s timeout, and the file write ends.
RfSysNext ==
    \/ AutoStart
    \/ AutoTimerFires
    \/ AutoCtxDone
    \/ \E resp \in Responses : RefreshResponse("auto", resp)
    \/ \E ok \in BOOLEAN, truncated \in BOOLEAN : RefreshPersist("auto", ok, truncated)

SpecRfFair == SpecRf /\ WF_vars(RfSysNext)

IrcNext ==
    \/ RunStart
    \/ LoopTop
    \/ DialOk
    \/ AuthSent
    \/ LoopCheck
    \/ \E line \in Lines : ReadLine(line)
    \/ ReadTimeout
    \/ WatcherFire
    \/ \E w \in Watchers : WatcherExit(w)
    \/ \E err \in {"tokenRequired", "dialErr", "dialTimeout", "canceled",
                   "sendErr", "readErr", "authFailed", "reconnect"} :
           SessionEnd(err)
    \/ BackoffElapsed
    \/ SleepCancelled
    \/ RefreshInvoke
    \/ \E ok \in BOOLEAN : RefreshReturn(ok)
    \/ RefreshElapsed
    \/ Cancel

InitIRC == HubInit /\ IrcInit /\ RelIdle /\ YtIdle /\ SupIdle /\ RfIdle /\ PipeIdle /\ MsgIdle

SpecIRC == InitIRC /\ [][IrcNext]_vars

\* Either receiver, run on its own: the two share nothing but the root
\* context, which neither writes.
RecvNext == IrcNext \/ YtNext

InitRecv ==
    /\ HubInit
    /\ RelIdle
    /\ SupIdle
    /\ RfIdle
    /\ PipeIdle
    /\ MsgIdle
    /\ \/ IrcInit /\ YtOff
       \/ IrcOff /\ YtInit

SpecRecv == InitRecv /\ [][RecvNext]_vars

\* The steps of the IRC receiver's own goroutines and of what it waits
\* for, each of which ends: the dial (10 s Dialer timeout), a write or a
\* read on the connection (2 min read deadline; closed by the watcher on
\* cancellation), a timer, RefreshNow (15 s request timeout).
IrcSysNext ==
    \/ RunStart
    \/ LoopTop
    \/ DialOk
    \/ AuthSent
    \/ LoopCheck
    \/ \E line \in Lines : ReadLine(line)
    \/ ReadTimeout
    \/ WatcherFire
    \/ \E err \in {"tokenRequired", "dialErr", "dialTimeout", "canceled",
                   "sendErr", "readErr", "authFailed", "reconnect"} :
           SessionEnd(err)
    \/ BackoffElapsed
    \/ SleepCancelled
    \/ RefreshInvoke
    \/ \E ok \in BOOLEAN : RefreshReturn(ok)
    \/ RefreshElapsed

\* The same for the polling receiver: a request (bounded by the context
\* and the client timeout) or a sleepContext returns.
YtSysNext ==
    \/ YtRunStart
    \/ YtLoopTop
    \/ \E k \in 1..NumKeys, c \in 1..NumConts : BootstrapOk(k, k, c)
    \/ BootstrapFail
    \/ \E woke \in BOOLEAN : BootSleepEnd(woke)
    \/ \E payload \in Payloads, next \in 0..NumConts, w \in Waits :
           PollOk(payload, next, w)
    \/ PollFail
    \/ \E woke \in BOOLEAN : FailSleepEnd(woke)
    \/ \E woke \in BOOLEAN : PollSleepEnd(woke)

SpecRecvFair ==
    /\ SpecRecv
    /\ WF_vars(IrcSysNext)
    /\ \A w \in Watchers : WF_vars(WatcherExit(w))
    /\ WF_vars(YtSysNext)

RelNext ==
    \/ CtlStart
    \/ CtlTick
    \/ CtlTickEmpty
    \/ CtlRecv
    \/ CtlApplySet
    \/ CtlApplyCancel
    \/ CtlRestart
    \/ CtlShutdown
    \/ CtlReturn
    \/ ClientConnect
    \/ ClientExit
    \/ ClientDies
    \/ ExternalWrite
    \/ \E p \in {"auto", "client"} : RefreshExchange(p)
    \/ \E p \in {"auto", "client"} : CallbackSet(p)
    \/ \E p \in {"auto", "client"} : CallbackCache(p)
    \/ ManualReload
    \/ \E p \in Pushers : SendTry1(p)
    \/ \E p \in Pushers : SendDrain(p)
    \/ \E p \in Pushers : SendTry2(p)
    \/ RootCancel

InitReload == HubInit /\ IrcIdle /\ RelInit /\ YtIdle /\ SupIdle /\ RfIdle /\ PipeIdle /\ MsgIdle

SpecReload == InitReload /\ [][RelNext]_vars

\* The steps of the controller, of the tasks inside sendTokenUpdate or a
\* refresh callback, and of the client: code that runs to its next
\* suspension point whenever its goroutine is scheduled.
RelSysNext ==
    \/ CtlStart \/ CtlTick \/ CtlRecv \/ CtlApplySet \/ CtlApplyCancel
    \/ CtlRestart \/ CtlShutdown \/ CtlReturn
    \/ ClientConnect \/ ClientExit
    \/ \E p \in Pushers :
           CallbackSet(p) \/ CallbackCache(p) \/ SendTry1(p) \/ SendDrain(p) \/ SendTry2(p)

SpecReloadFair == SpecReload /\ WF_vars(RelSysNext)

----------------------------------------------------------------------------
(* Claims about the broadcast hub, checked under SpecHub.                  *)

\* The Broadcast call has visited every client and is about to return.
BroadcastDone == bc.active /\ bc.todo = {}

\* C1: when Broadcast(m) returns, every registered subscriber whose filter
\* matches m and whose channel had room when the call began has had m
\* enqueued by this call, whichever subscribers were found full; a
\* subscriber found full has not.
C1_DropOnlyForFull ==
    BroadcastDone =>
        /\ \A c \in clients :
               (c \in hubLog.room /\ Matches(filt[c], bc.msg)) => c \in hubLog.got
        /\ hubLog.full \cap hubLog.got = {}
        /\ \A c \in hubLog.full : Matches(filt[c], bc.msg) /\ c \notin hubLog.room

\* A Broadcast call that found one subscriber full and delivered to
\* another.
C1_Witness ==
    /\ BroadcastDone
    /\ hubLog.full # {}
    /\ hubLog.got # {}

C2_Shrinks ==
    (bc.active /\ bc'.active /\ bc' # bc) =>
        (bc'.todo \subseteq bc.todo /\ bc'.todo # bc.todo)

\* C2: a Broadcast call in progress can always take its next step, whatever
\* the state of the subscriber channels and transports, and each step
\* leaves fewer clients to visit: the call returns without waiting on any
\* subscriber.
C2_BroadcastNeverWaits ==
    [](bc.active => ENABLED BroadcastProgress) /\ [][C2_Shrinks]_vars

\* Broadcast is about to send to a matching subscriber whose channel is
\* full and whose transport has stopped reading.
C2_Witness ==
    /\ bc.active
    /\ \E c \in bc.todo :
           /\ Len(ch[c]) = ChanCap
           /\ Matches(filt[c], bc.msg)
           /\ tpc[c] = "leaving"

----------------------------------------------------------------------------
(* Claims about the IRC receiver, checked under SpecIRC.                   *)

\* C3: when a session ended on the server's authentication-failure notice
\* and a refresh action is configured, RefreshNow has been invoked by the
\* time Run starts its next connection attempt.
C3_RefreshBeforeReconnect ==
    (rpc = "session" /\ phase = "dial") => ~ircLog.needRefresh

\* A connection attempt that follows an authentication failure and a
\* successful refresh.
C3_Witness ==
    /\ rpc = "session"
    /\ phase = "dial"
    /\ refreshCfg
    /\ ircLog.lastErr = "authFailed"
    /\ ircLog.refreshOk

\* C7: Run returns only after its cancellation signal has fired or because
\* the channel or login name is missing.
C7_ReturnsOnlyWhenCancelled ==
    rpc = "returned" => (ctxDone \/ ~cfgOk)

\* C8: the generic delay starts at 1 s, doubles after each failure up to
\* 60 s, and never decreases between consecutive failures (lastSlept is
\* the previous generic delay, 0 when none was slept since the start or
\* since the last successful refresh).
C8_GenericBackoff ==
    rpc = "backoffSleep" =>
        /\ ircLog.slept = (IF ircLog.lastSlept = 0 THEN 1
                           ELSE Min(2 * ircLog.lastSlept, 60))
        /\ ircLog.slept >= ircLog.lastSlept
        /\ ircLog.slept <= 60

\* The delay has reached the cap and stays there, on an authentication
\* failure without a refresh action.
C8_Witness ==
    /\ rpc = "backoffSleep"
    /\ ~refreshCfg
    /\ ircLog.lastErr = "authFailed"
    /\ ircLog.slept = 60
    /\ ircLog.lastSlept = 60

\* C9: the delay applied after a session that authenticated, joined and
\* ran its read loop is the 1 s seed.
C9_ResetAfterCleanSession ==
    (rpc = "backoffSleep" /\ ircLog.reachedRead) => ircLog.slept = 1

RefreshLoop == {"refresh", "refreshing", "refreshSleep"}

C10_Delays ==
    rpc = "refreshSleep" =>
        /\ ircLog.rslept = (IF ircLog.lastRSlept = 0 THEN 1
                            ELSE Min(2 * ircLog.lastRSlept, 60))
        /\ ircLog.rslept <= 60

C10_Step ==
    /\ (rpc \in RefreshLoop /\ rpc' \in RefreshLoop) => backoff' = backoff
    /\ (rpc \in RefreshLoop /\ rpc' \notin RefreshLoop) =>
           \/ rpc' = "top" /\ ircLog'.refreshOk
           \/ rpc' = "returned" /\ ctxDone

\* C10: on an authentication failure with a refresh action, Run stays in
\* the refresh loop until RefreshNow succeeds or the signal fires; the
\* delays between failed calls are 1, 2, 4, ... capped at 60 s, taken from
\* refreshBackoff alone, and the loop leaves the generic delay untouched.
C10_RefreshBackoff == []C10_Delays /\ [][C10_Step]_vars

\* The refresh delay is at its cap while the generic delay, advanced by
\* earlier disconnects, is where those left it.
C10_Witness ==
    /\ rpc = "refreshSleep"
    /\ ircLog.rslept = 60
    /\ ircLog.lastRSlept = 60
    /\ backoff = 4

\* C11: after RefreshNow succeeds Run goes straight to the next runOnce,
\* without a backoff sleep, and that attempt presents the credential the
\* provider returns after the refresh, not the one that was rejected.
C11_RetryWithRefreshed ==
    ircLog.afterRefresh =>
        /\ rpc \in {"top", "session", "returned"}
        /\ (rpc = "session") =>
               /\ sessTok = provTok
               /\ sessTok # ircLog.rejected

\* The attempt that follows a successful refresh is sending PASS with the
\* new credential.
C11_Witness ==
    /\ rpc = "session"
    /\ phase = "auth"
    /\ ircLog.afterRefresh
    /\ ircLog.rejected = 1
    /\ sessTok = 2

\* C12: once Shutdown has run, every channel that was registered is closed
\* and the registry is empty and stays so: every later registration is
\* rejected, and no channel receives a message any more.
C12_Closed ==
    closed =>
        /\ clients = {}
        /\ \A c \in Subs : ~chOpen[c]
        /\ bc.active => bc.todo = {}

C12_Step ==
    closed =>
        /\ closed'
        /\ \A c \in Subs :
               /\ (tpc[c] = "idle" /\ tpc'[c] # "idle") => tpc'[c] = "rejected"
               /\ Len(ch'[c]) <= Len(ch[c])

C12_ShutdownCloses == []C12_Closed /\ [][C12_Step]_vars

\* After Shutdown one subscriber, registered when it ran, is still in its
\* loop on a closed channel, and another was turned away.
C12_Witness ==
    /\ closed
    /\ \E c \in Subs : tpc[c] = "loop" /\ ~chOpen[c]
    /\ \E c \in Subs : tpc[c] = "rejected"

\* The loop of subscriber c is still running although its request is
\* cancelled or its channel has been closed.
StillLooping(c) == InLoop(c) /\ (tpc[c] = "cancelled" \/ ~chOpen[c])

\* A loop that has exited stays exited, and nothing is taken from its
\* channel any more.
C13_Step ==
    \A c \in Subs :
        tpc[c] \in {"leaving", "exited"} =>
            /\ tpc'[c] \in {"leaving", "exited"}
            /\ tpc'[c] = "leaving" =>
                   /\ Len(ch'[c]) >= Len(ch[c])
                   /\ SubSeq(ch'[c], 1, Len(ch[c])) = ch[c]

\* C13: a transport loop whose request is cancelled, or whose channel
\* Shutdown has closed, eventually exits and relays nothing more.
C13_LoopTerminates ==
    /\ <>[](\A c \in Subs : ~StillLooping(c))
    /\ [][C13_Step]_vars

\* A loop with messages still buffered whose channel Shutdown has closed,
\* and one whose request is cancelled while messages wait in its channel.
C13_Witness ==
    /\ \E c \in Subs : tpc[c] = "loop" /\ ~chOpen[c] /\ ch[c] # <<>>
    /\ \E c \in Subs : tpc[c] = "cancelled" /\ ch[c] # <<>>

\* C14: a subscriber's channel is closed exactly once, by removeClient or
\* by Shutdown, whichever comes first: no channel is closed twice,
\* Broadcast never sends on a closed channel, every registered subscriber
\* has an open channel and every subscriber whose handler has returned a
\* closed one.
C14_DestroyedOnce ==
    /\ hubErr = "none"
    /\ \A c \in clients : chOpen[c]
    /\ bc.todo \subseteq clients
    /\ \A c \in Subs : tpc[c] = "exited" => ~chOpen[c]

\* After Shutdown has closed every channel, one handler has run its
\* removeClient and another, disconnected, is about to.
C14_Witness ==
    /\ closed
    /\ nsent > 0
    /\ \E c \in Subs : tpc[c] = "exited"
    /\ \E c \in Subs : tpc[c] = "leaving" /\ ~chOpen[c]

\* The subscribers the Broadcast call in progress has already visited.
Visited == hubLog.got \cup hubLog.full \cup hubLog.skipped

C15_Queued ==
    /\ \A c \in Subs : \A i \in 1..Len(ch[c]) : Matches(filt[c], ch[c][i])
    /\ bc.active => bc.todo \cap Visited = {}

C15_Step ==
    /\ \A c \in Subs :
          \/ ch'[c] = ch[c]
          \/ ch[c] # <<>> /\ ch'[c] = Tail(ch[c])
          \/ tpc[c] = "leaving" /\ tpc'[c] = "exited" /\ ch'[c] = <<>>
          \/ /\ ch'[c] = Append(ch[c], bc.msg)
             /\ bc.active /\ bc'.active
             /\ Matches(filt[c], bc.msg)
             /\ c \in bc.todo /\ c \notin Visited
             /\ c \notin bc'.todo /\ c \in hubLog'.got
    /\ (bc.active /\ bc'.active) =>
          /\ bc'.msg = bc.msg
          /\ bc'.todo \subseteq bc.todo
          /\ Visited \subseteq hubLog'.got \cup hubLog'.full \cup hubLog'.skipped
          /\ \A c \in bc.todo : filt'[c] = filt[c]
    /\ (~bc.active /\ bc'.active) => nsent' = nsent + 1

----------------------------------------------------------------------------
(* Claims about the two receivers, checked under SpecRecv / SpecRecvFair   *)
(* (both) and SpecYT (the polling receiver).                               *)

\* C16: within one session the handler is called exactly once per chat
\* message the receiver has built, in arrival order: the handler's calls
\* are the chat posts parsed from the lines read (IRC), and the messages
\* of the successive poll batches, batch after batch (polling).
C16_HandledInOrder ==
    /\ handled = arrived
    /\ delivered = polled

\* Two different chat posts were read in one attempt, between lines that
\* are not chat posts.
C16_Witness ==
    /\ Len(handled) = MaxLines
    /\ handled[1] # handled[MaxLines]
    /\ phase = "read"

\* C17: once the cancellation signal has fired, Run returns, for either
\* receiver and wherever it is.
C17_CancelReturns ==
    /\ ctxDone ~> (rpc = "returned")
    /\ yctxDone ~> (ypc = "returned")

\* The signal fires while the polling receiver sleeps on its backoff in
\* the bootstrap closure, which does not return from Run itself.
C17_Witness ==
    /\ yctxDone
    /\ ypc = "bootSleep"
    /\ ybackoff > YtSeed

\* Outside a connection attempt (in particular once Run has returned) the
\* connection is not open and no watcher waits on the attempt.
C18_Released ==
    (phase = "none") => (conn # "open" /\ watcher = "none")

C21_Delay ==
    (ypc = "pollSleep") =>
        ytLog.delay = IF ytLog.wait.present /\ ytLog.wait.ms > 0
                      THEN ytLog.wait.ms
                      ELSE pollDelay

C21_Step ==
    /\ pollDelay' = pollDelay
    /\ (ypc # "polling" /\ ypc' = "polling" /\ ytLog.last = "pollOk") =>
          ypc = "top"
    /\ (ypc # "top" /\ ypc' = "top" /\ ytLog.last \in {"pollOk", "pollNoCont"}) =>
          ypc = "pollSleep"

\* C21: after a successful poll the next request is issued only once a
\* sleep of the response's positive timeoutMs, or else of the configured
\* poll interval (3 s by default), has elapsed.
C21_Pacing == []C21_Delay /\ [][C21_Step]_vars

\* Two sleeps are in progress after polls that returned a continuation:
\* one of the server's 2500 ms, one of the configured 4500 ms.
C21_Witness ==
    /\ ypc = "pollSleep"
    /\ ytLog.last = "pollOk"
    /\ ytLog.wait.present
    /\ ytLog.delay \in {2500, 4500}
    /\ pollDelay = 4500

C19_Cache == [key |-> apiKey, ver |-> clientVersion, cont |-> continuation]

\* C19: a poll is in flight only with the key, version and continuation
\* of the most recent successful bootstrap or poll, all non-empty, and
\* never directly after a failed poll or a poll without continuation: those
\* leave the cache empty, so the next request is a bootstrap.
C19_PollOnlyWithFreshCache ==
    /\ (ypc = "polling") =>
          /\ ytLog.last \in {"bootOk", "pollOk"}
          /\ ytLog.issued = ytLog.fresh
          /\ ytLog.issued = C19_Cache
          /\ apiKey # 0 /\ clientVersion # 0 /\ continuation # 0
    /\ (ytLog.last = "pollNoCont") => C19_Cache = NoCache
    /\ (ytLog.last = "pollFail" /\ ypc \in {"top", "bootstrapping"}) =>
          C19_Cache = NoCache
    /\ (ypc = "bootstrapping") => C19_Cache = NoCache

\* A bootstrap is in flight because the poll before it failed.
C19_Witness ==
    /\ ypc = "bootstrapping"
    /\ ytLog.last = "pollFail"
    /\ ytLog.fresh.cont # 0

C20_Delays ==
    /\ (ypc \notin {"init", "off"} /\ liveURLOk) => ybackoff \in YtSeed .. YtCap
    /\ (ypc \in {"bootSleep", "failSleep"}) => ytLog.slept = ybackoff
    /\ (ypc \in {"bootstrapping", "polling"}) => ytLog.backedOff

C20_Step ==
    /\ (ypc = "init" /\ ypc' = "top") => ybackoff' = YtSeed
    /\ (ypc = "bootstrapping" /\ ypc' = "polling") => ybackoff' = YtSeed
    /\ (ypc \in {"bootSleep", "failSleep"} /\ ytLog'.backedOff) =>
          ybackoff' = Min(2 * ybackoff, YtCap)
    /\ (ypc \in {"top", "polling", "pollSleep"}) => ybackoff' = ybackoff

\* C20: after a failed bootstrap or poll no request is issued before a
\* sleep of the current backoff has elapsed; the backoff is 1 s at the
\* start and after a successful bootstrap, doubles with each elapsed
\* failure sleep and never exceeds 60 s.
C20_PollingBackoff == []C20_Delays /\ [][C20_Step]_vars

\* Consecutive bootstrap failures have driven the delay to the cap, where
\* it stays.
C20_Witness ==
    /\ ypc = "bootSleep"
    /\ ytLog.slept = YtCap
    /\ ytLog.lastSlept = YtCap

----------------------------------------------------------------------------
(* Claims about the credential hot-swap controller. *)

\* The credential most recently issued is the one in the token file: a
\* refresh writes it there before its callback runs, and a manual reload
\* and the poll read it from there.
Newest == file

\* Once the last credential has been issued and the last update pushed, the
\* controller ends up with a client whose connection attempts present the
\* newest credential (or the process is shutting down).
UpdatesConverge == <>[](rootDone \/ (cur.tok = Newest /\ stateTok = Newest))

\* C4: after any finite sequence of credential updates, the update pushed
\* last eventually triggers a reconnect, and from some point on the receiver
\* is running a connection opened with the most recent credential.
C4_LastUpdateReconnects ==
    <>(relLog.pushes > 0 \/ file > 1) =>
        <>[](rootDone \/ (cur.alive /\ cur.tok = Newest))

\* Nothing is in flight: no task is inside a refresh callback or
\* sendTokenUpdate, the channel is empty, the controller is in its select.
Quiescent ==
    /\ \A p \in Pushers : pusher[p].pc = "idle"
    /\ updates = <<>>
    /\ ctl.pc = "select"

\* C5: several updates pushed before the controller has handled any of
\* them cause a single teardown-and-reconnect.
C5_BurstCoalesces ==
    (Quiescent /\ relLog.burst /\ relLog.pushes >= 2) =>
        relLog.chanReconnects = 1

\* C5 as amended: updates pushed before the controller has taken any of
\* them cause one teardown-and-reconnect per update left in the channel,
\* that is one per update up to the channel's capacity; updates are
\* superseded only when the channel is full.
C5_OneReconnectPerQueued ==
    (Quiescent /\ relLog.burst) =>
        relLog.chanReconnects = Min(relLog.pushes, UpdCap)

\* More updates than the channel holds were pushed in one burst and all
\* that were left in the channel have been handled.
C5_Witness ==
    /\ Quiescent
    /\ relLog.burst
    /\ relLog.pushes > UpdCap
    /\ relLog.chanReconnects = UpdCap

\* Client tasks whose Run has not returned.
ClientTasks == (IF cur.alive THEN 1 ELSE 0) + orphans

\* C6: the old client's task has exited before the new one is started, so
\* at most one IRC client task exists at a time.
C6_AtMostOneClient == ClientTasks <= 1

\* An update taken from the channel has replaced the client, and the new
\* client is running.
C6_Witness ==
    /\ relLog.chanReconnects >= 1
    /\ cur.alive
    /\ ~cur.cancelled
    /\ cur.tok = stateTok

\* Poller tasks whose Run has not returned.
RunningPollers == { i \in Pollers : task[i].st = "running" }

C22_State ==
    /\ Cardinality(RunningPollers) <= 1
    /\ (supPc = "stopWait") =>
          /\ currentCancel
          /\ task[currentDone].cancelled
          /\ \A i \in RunningPollers : i = currentDone
    /\ (supPc = "sleep" /\ ~supLog.res.err /\ supLog.res.live /\ supLog.res.watch # 0) =>
          /\ currentCancel
          /\ currentWatch = supLog.res.watch
          /\ task[currentDone].watch = supLog.res.watch
          /\ ~task[currentDone].cancelled

C22_Step ==
    /\ \A i \in Pollers :
          (task[i].st = "none" /\ task'[i].st = "running") =>
              /\ \A j \in Pollers : task[j].st # "running"
              /\ supLog'.res.live
              /\ task'[i].watch = supLog'.res.watch
              /\ currentDone' = i
    /\ \A res \in Resolutions :
          ( /\ Resolved(res)
            /\ ~res.err /\ res.live /\ res.watch # 0
            /\ res.watch # currentWatch
            /\ currentCancel ) =>
              /\ supPc' = "stopWait"
              /\ task'[currentDone].cancelled
              /\ pending' = res.watch
              /\ \A i \in Pollers : task'[i].st = task[i].st

\* C22: on a resolution that reports a live watch target other than the
\* polled one the supervisor cancels the old poller and waits for its task
\* to exit; a poller task is started only when no other is running, and it
\* polls the target of the latest resolution; at most one poller task
\* exists at any time.
C22_OnePollerReplaced == []C22_State /\ [][C22_Step]_vars

\* A second poller runs for a changed target after the first has exited.
C22_Witness ==
    /\ task[1].st = "exited"
    /\ task[1].cancelled
    /\ task[2].st = "running"
    /\ task[2].watch # task[1].watch
    /\ currentDone = 2
    /\ currentWatch = task[2].watch
    /\ ~supCtxDone

C23_State ==
    supLog.offline =>
        IF supPc = "stopWait"
        THEN /\ pending = 0
             /\ \A i \in RunningPollers : task[i].cancelled
        ELSE /\ RunningPollers = {}
             /\ ~currentCancel
             /\ currentWatch = 0

C23_Step ==
    \A i \in Pollers :
        (task[i].st # "running" /\ task'[i].st = "running") =>
            /\ ~supLog'.offline
            /\ ~supLog'.res.err
            /\ supLog'.res.live

\* C23: on a resolution that reports the target not live the supervisor
\* cancels the active poller and waits for its task to exit, and from then
\* on no poller task runs, and none is started, until a resolution reports
\* the target live.
C23_OfflineTearsDown == []C23_State /\ [][C23_Step]_vars

\* The target was resolved not live while a poller ran; the poller has been
\* cancelled and has exited, and the supervisor waits for its next retry.
C23_Witness ==
    /\ supLog.offline
    /\ supPc = "sleep"
    /\ task[1].st = "exited"
    /\ task[1].cancelled
    /\ ~currentCancel
    /\ ~supCtxDone

\* The callers that are between sending the refresh request and the end
\* of writeTokenFile.
InExchangeOrPersist == { c \in Callers : rf[c].pc \in {"exchange", "persist"} }

\* C24: the receiver's auth-failure refresh and the auto-refresh loop are
\* never both inside the exchange-and-persist of Refresh.
C24_RefreshNeverConcurrent == Cardinality(InExchangeOrPersist) <= 1

\* The auto-refresh loop is back at its select after a refresh of its own
\* that succeeded.
AfterAutoSuccess ==
    /\ autoPc = "timer"
    /\ rfLog.scheduled
    /\ ret["auto"].err = "none"

C25_Scheduled ==
    AfterAutoSuccess =>
        LET L == ret["auto"].expires IN
        /\ timerD >= Minute
        /\ IF 85 * L >= 100 * Minute
           THEN 100 * timerD <= 85 * L /\ 85 * L < 100 * (timerD + 1)
           ELSE timerD = Minute

C25_Step ==
    /\ (timerD' # timerD) => autoPc \in {"start", "refreshing"}
    /\ (rf["auto"].pc = "idle" /\ rf'["auto"].pc # "idle") =>
          /\ autoPc = "timer"
          /\ (ret["auto"].err = "none" /\ rfLog.scheduled) => timerD >= Minute

\* C25: after a refresh of the auto-refresh loop that succeeded with
\* lifetime L the loop's timer is armed with the larger of 85% of L
\* (rounded down) and one minute, the timer is not re-armed while the loop
\* waits, and the loop's next refresh is issued only from that wait.
C25_ProactiveInterval == []C25_Scheduled /\ [][C25_Step]_vars

\* A success with a lifetime of 100 s has armed the timer with 85 s.
C25_Witness ==
    /\ AfterAutoSuccess
    /\ ret["auto"].expires = 100 * Second
    /\ timerD = 85 * Second

\* The step in which a Refresh of the auto-refresh loop returns an error
\* while the context is live.
AutoFailureStep ==
    /\ rf["auto"].pc # "idle"
    /\ rf'["auto"].pc = "idle"
    /\ ret'["auto"].err # "none"
    /\ ~rfCtxDone

C26_State ==
    /\ (autoPc \in {"timer", "refreshing", "returned"}) =>
          abackoff >= Second /\ abackoff <= Minute
    /\ AfterAutoSuccess => abackoff = Second
    /\ (autoPc = "timer" /\ ~rfLog.scheduled) => abackoff = Second

C26_Step ==
    /\ AutoFailureStep =>
          /\ timerD' = abackoff
          /\ abackoff' = IF 2 * abackoff <= Minute THEN 2 * abackoff ELSE Minute
          /\ autoPc' = "timer"
    /\ (abackoff' # abackoff) => autoPc \in {"start", "refreshing"}

\* C26: the auto-refresh loop's retry delay is 1 s at the start and after
\* every success, each failure waits the current delay and doubles it for
\* the next one, and the delay never exceeds one minute.
C26_AutoBackoff == []C26_State /\ [][C26_Step]_vars

\* Enough consecutive failures that the loop waits the full minute.
C26_Witness ==
    /\ autoPc = "timer"
    /\ ret["auto"].err # "none"
    /\ timerD = Minute
    /\ abackoff = Minute
    /\ rfLog.scheduled

\* token is in canonical form: the "oauth:" prefix, then a body, no white
\* space around it.
Canonical(token) ==
    /\ token # <<>>
    /\ Head(token) = "oauth:"
    /\ token[Len(token)] # " "

\* The canonical form of a token without surrounding white space.
CanonicalOf(token) ==
    IF Head(token) = "oauth:" THEN token ELSE <<"oauth:">> \o token

C27_State ==
    /\ AfterAutoSuccess =>
          /\ rfLog.notes = 1
          /\ Canonical(rfLog.noteTok)
          /\ rfLog.noteTok = CanonicalOf(ret["auto"].token)
    /\ (ret["auto"].err # "none") => rfLog.notes = 0
    /\ (autoPc \in {"start", "refreshing"}) => rfLog.notes = 0

C27_Step ==
    (rfLog'.notes # rfLog.notes) =>
        \/ /\ rfLog'.notes = rfLog.notes + 1
           /\ rf["auto"].pc = "persist"
           /\ rf'["auto"].pc = "idle"
           /\ ret'["auto"].err = "none"
        \/ /\ rfLog'.notes = 0
           /\ autoPc = "timer"
           /\ autoPc' = "refreshing"

\* C27: the auto-refresh loop calls the observer exactly once for each of
\* its refreshes that succeeds, with that refresh's token in canonical
\* form, and not at all for a refresh that fails.
C27_ObserverNotified == []C27_State /\ [][C27_Step]_vars

\* A refresh returned the bare token and the observer got it prefixed.
C27_Witness ==
    /\ AfterAutoSuccess
    /\ ret["auto"].token = <<"a">>
    /\ rfLog.notes = 1
    /\ rfLog.noteTok = <<"oauth:", "a">>

Blank(s) == \A i \in 1 .. Len(s) : s[i] = " "

\* text is msg word for word: msg without the white space around it.
Verbatim(text, msg) ==
    \E i \in 1 .. Len(msg), j \in 1 .. Len(msg) :
        /\ i <= j
        /\ text = SubSeq(msg, i, j)
        /\ msg[i] # " " /\ msg[j] # " "
        /\ \A k \in 1 .. Len(msg) : (k < i \/ k > j) => msg[k] = " "

\* The message a non-success response carries: message, else
\* error_description, else error.
ProviderMessage(resp) ==
    IF ~Blank(resp.message) THEN resp.message
    ELSE IF ~Blank(resp.desc) THEN resp.desc
    ELSE resp.error

\* The response fails the refresh in one of the three retryable ways.
Retryable(resp) ==
    \/ resp.kind = "neterr"
    \/ resp.kind = "http" /\ resp.status # 200
    \/ resp.kind = "http" /\ resp.status = 200 /\ Blank(resp.token)

C28_Step ==
    \A c \in Callers, resp \in Responses :
        (RefreshResponse(c, resp) /\ Retryable(resp)) =>
            /\ ret'[c].err \in {"request", "provider", "status", "emptyToken"}
            /\ ret'[c].token = <<>>
            /\ rf'[c].pc = "idle"
            /\ tokenFile' = tokenFile
            /\ lastExpires' = lastExpires
            /\ (resp.kind = "http" /\ resp.status # 200 /\ ~Blank(ProviderMessage(resp))) =>
                  /\ ret'[c].err = "provider"
                  /\ Verbatim(ret'[c].text, ProviderMessage(resp))
            /\ (c = "auto" /\ ~rfCtxDone) =>
                  /\ autoPc' = "timer"
                  /\ timerD' = abackoff

\* The auto-refresh loop waits to retry a refresh that failed retryably.
AutoRetryPending ==
    /\ autoPc = "timer"
    /\ rfLog.scheduled
    /\ ret["auto"].err \in {"request", "provider", "status", "emptyToken"}

\* C28: a refresh that fails by a network error, a non-success response or
\* an empty token returns an error (the provider's message, word for word,
\* for a non-success response that carries one), writes neither the token
\* file nor the recorded lifetime, and leaves the auto-refresh loop
\* waiting on its timer, from where it refreshes again unless the context
\* is cancelled.
C28_RetryableFailures ==
    /\ [][C28_Step]_vars
    /\ AutoRetryPending ~> (rf["auto"].pc = "exchange" \/ rfCtxDone)

\* The loop's refresh got a non-success response with a message; the error
\* is that message and the token file is as it was.
C28_Witness ==
    /\ AutoRetryPending
    /\ ret["auto"].err = "provider"
    /\ ret["auto"].text = <<"m">>
    /\ tokenFile = <<"oauth:", "a">>
    /\ ~rfCtxDone

\* The receiver hands its next message to the handler.
PipeDeliver == \E n \in 0 .. MaxBatch : Deliver(n)

\* A call of the sink's Write fails in this step.
SinkFailsNow == \E k \in PMsgs : tries'[k] = tries[k] + 1 /\ k \notin stored'

\* The handler logs one failure in this step, and counts it when the API
\* has metrics.
FailureRecorded ==
    /\ pipeLog'.logged = pipeLog.logged + 1
    /\ pipeLog'.counted = pipeLog.counted + (IF pcfg.api /\ pcfg.metrics THEN 1 ELSE 0)

C29_State ==
    /\ \A k \in PMsgs : tries[k] <= 1
    /\ \A k \in PMsgs : (tries[k] = 1 \/ \E i \in 1 .. Len(buffer) : buffer[i] = k) => k <= handed
    /\ (~pipeStopped /\ handed < MaxMsgs) => ENABLED PipeDeliver

C29_Step ==
    /\ (PipeDeliver /\ (SinkFailsNow \/ lastErr)) => FailureRecorded
    /\ (PipeDeliver /\ ~SinkFailsNow /\ ~lastErr) => pipeLog'.logged = pipeLog.logged
    /\ PipeDeliver => handed' = handed + 1 /\ pipeStopped' = pipeStopped
    /\ (SinkFailsNow /\ ~PipeDeliver /\ ~pclosed') =>
          /\ lastErr'
          /\ handed' = handed
          /\ pipeStopped' = pipeStopped
    /\ (pipeStopped' # pipeStopped) =>
          /\ tries' = tries
          /\ handed' = handed
          /\ pipeLog' = pipeLog

\* C29: a failing sink write is logged once by the handler (and counted
\* when the API has metrics), at once or, for a timed flush, on the next
\* call; no message is written a second time; the handler returns and the
\* receiver can hand over its next message; the receiver's context is
\* cancelled in no step that writes or handles a message.
C29_FailureNeverHalts == []C29_State /\ [][C29_Step]_vars

\* The write of the first message failed, was logged and counted, and the
\* receiver has handed over every later message, which were stored.
C29_Witness ==
    /\ handed = MaxMsgs
    /\ tries[1] = 1
    /\ 1 \notin stored
    /\ \A k \in 2 .. MaxMsgs : k \in stored
    /\ pipeLog.logged = 1
    /\ pipeLog.counted = 1
    /\ ~pipeStopped

\* C30: with the API present, every message handed to the handler and no
\* longer waiting in the buffer has been broadcast, whether or not its
\* sink write succeeded.
C30_BroadcastRegardless ==
    pcfg.api =>
        \A k \in 1 .. handed :
            \/ \E i \in 1 .. Len(buffer) : buffer[i] = k
            \/ k \in bcast

----------------------------------------------------------------------------
(* Claims about the payload units of the two receivers.                    *)

\* The line is none of what the read loop recognizes: not empty, without
\* an authentication-failure phrase, no PING, without " RECONNECT", and no
\* chat post of the configured channel.
Unrecognized(line) ==
    ~line.blank /\ ~line.auth /\ ~line.ping /\ ~line.reconn /\ ~line.priv

\* The texts of the chat items of a payload that have one, in order.
RECURSIVE TextsWithContent(_)
TextsWithContent(payload) ==
    IF payload = <<>> THEN <<>>
    ELSE IF Head(payload).chat /\ Head(payload).text # ""
    THEN <<Head(payload).text>> \o TextsWithContent(Tail(payload))
    ELSE TextsWithContent(Tail(payload))

C31_Step ==
    /\ \A line \in Lines :
          (ReadLine(line) /\ Unrecognized(line)) =>
              /\ handled' = handled
              /\ arrived' = arrived
              /\ phase' = "loop"
              /\ rpc' = rpc
              /\ conn' = conn
              /\ watcher' = watcher
              /\ <<backoff, refreshBackoff, retval, sessTok>>' =
                    <<backoff, refreshBackoff, retval, sessTok>>
    /\ \A payload \in Payloads, next \in 0 .. NumConts, w \in Waits :
          PollOk(payload, next, w) =>
              /\ delivered' = delivered \o TextsWithContent(payload)
              /\ ypc' = "pollSleep"

\* C31: a line the read loop does not recognize causes no handler call and
\* leaves the attempt in its read loop with the connection, the delays and
\* the calls made so far as they were, so the lines before and after it
\* are treated as without it; a poll's items without text and its
\* non-chat actions cause no handler call, the items with text are all
\* handed over in order, and the polling goes on to its next sleep.
C31_MalformedSkipped == [][C31_Step]_vars

\* Either an unrecognized line was read between two chat posts that were
\* both handed over, or a poll carried an item without text between two
\* chat items that were both handed over.
C31_Witness ==
    \/ /\ ircLog.dropped
       /\ Len(handled) = 2
       /\ phase = "loop"
       /\ conn = "open"
    \/ /\ ytLog.skipped
       /\ delivered = <<"a", "b">>
       /\ ypc = "pollSleep"

----------------------------------------------------------------------------
(* Message identity and badges.                                            *)

Platforms == {"Twitch", "YouTube"}

\* C32: every message a receiver emits has a non-empty id and a platform
\* that is Twitch or YouTube, also when the source supplied no id.
C32_IdAndPlatform ==
    \A u \in {m1, m2} :
        u.ok => (u.msg.id # <<>> /\ u.msg.platform \in Platforms)

\* Both receivers have emitted a message whose id they synthesized.
C32_Witness ==
    /\ m1.ok /\ m1.synth /\ m1.src = "twitch"
    /\ m2.ok /\ m2.synth /\ m2.src = "youtube"

\* C33: two ids synthesized by the same receiver for the same sender and
\* the same message timestamp are equal.
C33_SynthDeterministic ==
    ( /\ m1.ok /\ m2.ok
      /\ m1.synth /\ m2.synth
      /\ m1.src = m2.src
      /\ m1.msg.username = m2.msg.username
      /\ m1.msg.ts = m2.msg.ts )
    => m1.msg.id = m2.msg.id

\* The same, for the IRC receiver alone.
TwitchSynthDeterministic ==
    (m1.src = "twitch" /\ m2.src = "twitch") => C33_SynthDeterministic

Badge(id, version) == [id |-> id, slash |-> TRUE, version |-> version]

Named(e) == e.id # ""

\* The badge-info entries for a badge id, and the value the tag gives for
\* it: that of the last entry ("": none).
Overrides(info, id) ==
    { j \in DOMAIN info : info[j].slash /\ info[j].id = id }

Override(info, id) ==
    IF Overrides(info, id) = {} THEN ""
    ELSE info[CHOOSE k \in Overrides(info, id) :
                 \A j \in Overrides(info, id) : j <= k].version

C34_Resolved ==
    bg.done =>
        LET listed == SelectSeq(bg.badges, Named) IN
        /\ Len(bg.out) = Len(listed)
        /\ \A i \in DOMAIN listed :
            /\ bg.out[i].id = listed[i].id
            /\ bg.out[i].version =
                  IF Override(bg.info, listed[i].id) # ""
                  THEN Override(bg.info, listed[i].id)
                  ELSE IF listed[i].version # "" THEN listed[i].version
                  ELSE IF listed[i].id = "broadcaster" THEN Channel
                  ELSE ""

C34_Examples ==
    /\ ( /\ bg.done
         /\ bg.badges = <<Badge("moderator", "1"), Badge("subscriber", "6"),
                          Badge("partner", "1")>>
         /\ bg.info = <<Badge("subscriber", "24")>> )
       => bg.out = << [id |-> "moderator", version |-> "1"],
                      [id |-> "subscriber", version |-> "24"],
                      [id |-> "partner", version |-> "1"] >>
    /\ ( /\ bg.done
         /\ bg.badges = <<Badge("broadcaster", "")>>
         /\ bg.info = <<>> )
       => bg.out = << [id |-> "broadcaster", version |-> "chan"] >>

\* C34: the badges come out in the order of the badge list, each with the
\* badge-info value given for its id if there is one, else with its listed
\* version, and a broadcaster badge still without version with the channel
\* name; moderator/1,subscriber/6,partner/1 with subscriber/24 gives
\* moderator 1, subscriber 24, partner 1; broadcaster/ on chan gives chan.
C34_BadgeVersions == C34_Resolved /\ C34_Examples

\* The claim's first example has been resolved.
C34_Witness ==
    /\ bg.done
    /\ bg.badges = <<Badge("moderator", "1"), Badge("subscriber", "6"),
                     Badge("partner", "1")>>
    /\ bg.info = <<Badge("subscriber", "24")>>
    /\ Len(bg.out) = 3

\* The second example has been resolved.
BroadcasterResolved ==
    /\ bg.done
    /\ bg.badges = <<Badge("broadcaster", "")>>
    /\ bg.out # <<>>

----------------------------------------------------------------------------
(* The authentication-failure path of the IRC receiver.                    *)

\* C38: a chat post never puts the receiver on the authentication-failure
\* path: the attempt does not end with errAuthFailed on a line that
\* parsePrivmsg accepts as a chat post.
C38_OnlyNoticeFailsAuth ==
    ~(ircLog.endPriv /\ ircLog.lastErr = "authFailed")

\* The refresh action is about to be called for an attempt that a chat
\* post ended.
RefreshForChatPost ==
    ircLog.endPriv /\ ircLog.lastErr = "authFailed" /\ rpc = "refresh"

\* C37: Run never starts an attempt right after another: when it is back at
\* the top of its loop after an attempt ended, one of its timers has
\* elapsed since.
C37_AttemptsSeparated ==
    (rpc = "top" /\ ircLog.lastErr # "none") => ircLog.paused

\* The same when the attempt did not end with errAuthFailed.
GenericAttemptsSeparated ==
    (rpc = "top" /\ ircLog.lastErr \notin {"none", "authFailed"}) => ircLog.paused

----------------------------------------------------------------------------
(* Repeated poll failures of the polling receiver.                         *)

\* C40: while polls keep failing with a successful bootstrap before each,
\* the delay slept after a poll failure is at least the one slept after the
\* poll failure before it, and longer until it is at the cap.
C40_PollFailuresBackOff ==
    (ypc = "failSleep" /\ ytLog.failSlept > 0) =>
        /\ ytLog.slept >= ytLog.failSlept
        /\ (ytLog.failSlept < YtCap) => ytLog.slept > ytLog.failSlept

\* Every sleep after a poll failure is of the seed.
PollFailureSleepsSeed ==
    (ypc = "failSleep") => ytLog.slept = YtSeed

----------------------------------------------------------------------------
(* The periodic check of the token file.                                   *)

\* C35: the periodic check of the token file starts a reconnect only when
\* the content of the file differs from the credential the receiver is
\* running on.
C35_CheckReconnectsOnChange == ~relLog.tickSame

----------------------------------------------------------------------------
(* The buffered writer: flushes, Close and the order of the sink's writes. *)

\* No call of the sink's Write has failed.
NoSinkFailure == \A i \in 1 .. Len(sinkLog) : sinkLog[i] \in stored

\* C36: once Close has returned, every message Write accepted has been
\* handed to the underlying sink exactly once (stated for the runs in which
\* no sink write fails).
C36_AllHandedOnClose ==
    (pclosed /\ NoSinkFailure) => \A k \in 1 .. handed : tries[k] = 1

\* The first half of the claim: a buffer that has reached the batch size
\* does not outlast the Write that filled it, and a non-empty buffer has
\* its timer running when a flush interval is configured.
FlushTriggers ==
    /\ pcfg.buffered => Len(buffer) < pcfg.batchSize
    /\ (pcfg.buffered /\ pcfg.flush /\ buffer # <<>>) => ptimer

\* C39: the sink is handed the messages in the order in which Write
\* accepted them.
C39_OrderPreserved ==
    \A i, j \in 1 .. Len(sinkLog) : i < j => sinkLog[i] < sinkLog[j]

====
